---------------------------- MODULE Spec2Model ----------------------------
(***************************************************************************)
(* Sushi Go client SDK (python/src/ao_games): the line codec               *)
(* (protocol.py), the GameState fold (state.py), the synchronous           *)
(* connection (connection.py) and the control loops run_bot and            *)
(* run_tournament_bot (bot.py).                                            *)
(*                                                                         *)
(* Python str values are TLA+ strings; the codec is modelled character by  *)
(* character (strip, partition, split, int, the HAND regular expression,   *)
(* the brace scan of GAME_END).  None is the value None_.  A Python        *)
(* exception is the string naming its class.                               *)
(***************************************************************************)
EXTENDS Integers, Sequences, FiniteSets, TLC

VARIABLES
    pc,      \* position of the running operation (or of the message script)
    state,   \* the session's GameState
    conn,    \* SyncConnection: [sock, file] (TRUE: set, FALSE: None)
    line,    \* the last line recv_line returned
    msg,     \* the last message parse_server_message returned
    choice,  \* the pending return value of Bot.choose_card
    exc,     \* the exception that left the operation, or None_
    closes,  \* number of calls of SyncConnection.close
    log      \* events of the current handler: folds, callbacks, lines sent

vars == <<pc, state, conn, line, msg, choice, exc, closes, log>>

None_ == "None"

---------------------------------------------------------------------------
(* Bounds of the model.                                                    *)

\* Hand messages folded per round (state.turn) before the server stops dealing.
MaxTurn == 2
\* Card index offered to choose_card as a return value: 0..MaxChoice.
MaxChoice == 1
\* Matches a tournament script assigns.
MaxMatches == 2
\* Rounds a scripted game plays.
MaxRounds == 2
\* messages folded into one GameState
MaxFolds == 4
\* events of one GameClient session
MaxCalls == 3
\* lines the server delivers to one run of SushiGoTournamentClient
MaxLines == 6
\* operations called on a GameClient and an AsyncGameClient side by side
MaxOps == 2

---------------------------------------------------------------------------
(* Python str operations, on TLA+ strings.                                 *)

Char(s, i) == SubSeq(s, i, i)

\* str.isspace for the characters a line can carry
IsWs(c) == c \in {" ", "\t", "\r", "\n"}

Digits == "0123456789"

IsDigit(c) == \E d \in 1..10 : Char(Digits, d) = c

DigitVal(c) == (CHOOSE d \in 1..10 : Char(Digits, d) = c) - 1

RECURSIVE LStrip(_)
LStrip(s) == IF Len(s) > 0 /\ IsWs(Char(s, 1)) THEN LStrip(Tail(s)) ELSE s

RECURSIVE RStrip(_)
RStrip(s) ==
    IF Len(s) > 0 /\ IsWs(Char(s, Len(s)))
    THEN RStrip(SubSeq(s, 1, Len(s) - 1))
    ELSE s

\* str.strip()
Strip(s) == RStrip(LStrip(s))

\* str.startswith(p)
StartsWith(s, p) == Len(s) >= Len(p) /\ SubSeq(s, 1, Len(p)) = p

\* 1-based index of the first occurrence of sub in s at or after from; 0 if none.
RECURSIVE FindFrom(_, _, _)
FindFrom(s, sub, from) ==
    IF from + Len(sub) - 1 > Len(s) THEN 0
    ELSE IF SubSeq(s, from, from + Len(sub) - 1) = sub THEN from
    ELSE FindFrom(s, sub, from + 1)

Find(s, sub) == FindFrom(s, sub, 1)

\* 1-based index of the last whitespace character of s; 0 if none.
RECURSIVE RFindWs(_, _)
RFindWs(s, i) ==
    IF i = 0 THEN 0 ELSE IF IsWs(Char(s, i)) THEN i ELSE RFindWs(s, i - 1)

\* str.partition(" "): <<head, tail>>
Partition(s) ==
    LET i == Find(s, " ")
    IN  IF i = 0 THEN <<s, "">>
        ELSE <<SubSeq(s, 1, i - 1), SubSeq(s, i + 1, Len(s))>>

\* str.split(sep) with an explicit separator: empty pieces are kept.
RECURSIVE SplitOn(_, _)
SplitOn(s, sep) ==
    LET i == Find(s, sep)
    IN  IF i = 0 THEN <<s>>
        ELSE <<SubSeq(s, 1, i - 1)>> \o SplitOn(SubSeq(s, i + Len(sep), Len(s)), sep)

\* str.split(sep, 1)
SplitOn1(s, sep) ==
    LET i == Find(s, sep)
    IN  IF i = 0 THEN <<s>>
        ELSE <<SubSeq(s, 1, i - 1), SubSeq(s, i + Len(sep), Len(s))>>

\* str.split(None, n): at most n splits on runs of whitespace; n < 0: no limit.
RECURSIVE SplitWs(_, _)
SplitWs(s, n) ==
    LET t == LStrip(s)
        i == Find(t, " ")
    IN  IF t = "" THEN <<>>
        ELSE IF n = 0 THEN <<t>>
        ELSE IF i = 0 THEN <<t>>
        ELSE <<SubSeq(t, 1, i - 1)>> \o SplitWs(SubSeq(t, i + 1, Len(t)), n - 1)

\* str.split()
Split(s) == SplitWs(s, -1)

\* str.rsplit(None, 1)
RSplit1(s) ==
    LET t == RStrip(s)
        j == RFindWs(t, Len(t))
        head == RStrip(SubSeq(t, 1, j - 1))
    IN  IF t = "" THEN <<>>
        ELSE IF j = 0 \/ head = "" THEN <<LStrip(t)>>
        ELSE <<head, SubSeq(t, j + 1, Len(t))>>

AllDigits(s) == Len(s) > 0 /\ \A i \in 1..Len(s) : IsDigit(Char(s, i))

RECURSIVE DigitsVal(_)
DigitsVal(s) ==
    IF s = "" THEN 0
    ELSE 10 * DigitsVal(SubSeq(s, 1, Len(s) - 1)) + DigitVal(Char(s, Len(s)))

\* int(s): surrounding whitespace and one sign are accepted.
IntBody(s) ==
    LET t == Strip(s)
    IN  IF Len(t) > 0 /\ Char(t, 1) \in {"+", "-"} THEN Tail(t) ELSE t

IsInt(s) == AllDigits(IntBody(s))

ToInt(s) ==
    LET t == Strip(s)
    IN  IF Len(t) > 0 /\ Char(t, 1) = "-" THEN 0 - DigitsVal(IntBody(s))
        ELSE DigitsVal(IntBody(s))

\* str(n) for n >= 0, as the f-strings of the formatters produce it.
RECURSIVE NatStr(_)
NatStr(n) ==
    IF n < 10 THEN Char(Digits, n + 1)
    ELSE NatStr(n \div 10) \o Char(Digits, (n % 10) + 1)

IntStr(n) == IF n < 0 THEN "-" \o NatStr(0 - n) ELSE NatStr(n)

---------------------------------------------------------------------------
(* types.py: the card catalog.                                             *)

Card ==
    {"TEMPURA", "SASHIMI", "DUMPLING", "MAKI_1", "MAKI_2", "MAKI_3",
     "EGG_NIGIRI", "SALMON_NIGIRI", "SQUID_NIGIRI", "PUDDING", "WASABI",
     "CHOPSTICKS"}

\* Card.code: the enum values
CardCode ==
    [c \in Card |->
        CASE c = "TEMPURA" -> "TMP"
          [] c = "SASHIMI" -> "SSH"
          [] c = "DUMPLING" -> "DMP"
          [] c = "MAKI_1" -> "MK1"
          [] c = "MAKI_2" -> "MK2"
          [] c = "MAKI_3" -> "MK3"
          [] c = "EGG_NIGIRI" -> "EGG"
          [] c = "SALMON_NIGIRI" -> "SAL"
          [] c = "SQUID_NIGIRI" -> "SQD"
          [] c = "PUDDING" -> "PUD"
          [] c = "WASABI" -> "WAS"
          [] c = "CHOPSTICKS" -> "CHP"]

\* _CARD_NAMES
CardNames ==
    [c \in Card |->
        CASE c = "TEMPURA" -> "Tempura"
          [] c = "SASHIMI" -> "Sashimi"
          [] c = "DUMPLING" -> "Dumpling"
          [] c = "MAKI_1" -> "Maki Roll (1)"
          [] c = "MAKI_2" -> "Maki Roll (2)"
          [] c = "MAKI_3" -> "Maki Roll (3)"
          [] c = "EGG_NIGIRI" -> "Egg Nigiri"
          [] c = "SALMON_NIGIRI" -> "Salmon Nigiri"
          [] c = "SQUID_NIGIRI" -> "Squid Nigiri"
          [] c = "PUDDING" -> "Pudding"
          [] c = "WASABI" -> "Wasabi"
          [] c = "CHOPSTICKS" -> "Chopsticks"]

\* The outcome of a call that may raise.
Ok(v) == [ok |-> TRUE, val |-> v]

Raise(e) == [exc |-> e, ok |-> FALSE]

\* from_code that trims the code before the lookup
from_code_Trimmed(code) ==
    IF \E c \in Card : CardCode[c] = Strip(code)
    THEN Ok(CHOOSE c \in Card : CardCode[c] = Strip(code))
    ELSE Raise("ValueError")

\* Card.from_code
from_code(code) ==
    IF \E c \in Card : CardCode[c] = code
    THEN Ok(CHOOSE c \in Card : CardCode[c] = code)
    ELSE Raise("ValueError")

\* Card.from_name, through _NAME_TO_CARD
from_name(name) ==
    IF \E c \in Card : CardNames[c] = name
    THEN Ok(CHOOSE c \in Card : CardNames[c] = name)
    ELSE Raise("ValueError")

HandCard(i, c) == [index |-> i, card |-> c]

\* dict.get(k, 0) on a dict held as a function
Get0(d, k) == IF k \in DOMAIN d THEN d[k] ELSE 0

---------------------------------------------------------------------------
(* errors.py                                                               *)

\* ErrorCode: the values 1..18
ErrorCode == 1..18

\* code_str without the zero padding
code_str_Unpadded(c) == "E" \o NatStr(c)

\* ErrorCode.code_str: f"E{value:03d}"
code_str(c) ==
    "E" \o (IF c < 10 THEN "00" ELSE IF c < 100 THEN "0" ELSE "") \o NatStr(c)

\* ErrorCode.from_code_str
from_code_str(code) ==
    IF StartsWith(code, "E") /\ Len(code) = 4
    THEN IF IsInt(Tail(code)) /\ ToInt(Tail(code)) \in ErrorCode
         THEN Ok(ToInt(Tail(code)))
         ELSE Raise("ValueError")
    ELSE Raise("ValueError")

\* from_line with its result returned by the caller instead of raised
from_line_Returned(l) ==
    LET parts == SplitWs(l, 2)
    IN  IF Len(parts) < 3 \/ parts[1] # "ERROR" THEN Raise("ValueError")
        ELSE LET code == from_code_str(parts[2])
             IN  IF ~code.ok THEN code
                 ELSE Ok([code |-> code.val,
                          kind |-> "ProtocolError", message |-> parts[3]])

\* ProtocolError.from_line: the exception built from an ERROR line, or the
\* ValueError raised while building it.
from_line(l) ==
    LET parts == SplitWs(l, 2)
    IN  IF Len(parts) < 3 \/ parts[1] # "ERROR" THEN Raise("ValueError")
        ELSE LET code == from_code_str(parts[2])
             IN  IF ~code.ok THEN code
                 ELSE [exc |-> "ProtocolError", ok |-> FALSE,
                       code |-> code.val, message |-> parts[3]]

\* _DEFAULT_MESSAGES
DefaultMessages ==
    [c \in ErrorCode |->
        CASE c = 1 -> "Invalid command format"
          [] c = 2 -> "Not your turn or game not ready"
          [] c = 3 -> "Invalid card index"
          [] c = 4 -> "No chopsticks available"
          [] c = 5 -> "Game not found"
          [] c = 6 -> "Game has already started"
          [] c = 7 -> "Name already taken"
          [] c = 8 -> "Already submitted move this turn"
          [] c = 9 -> "Cannot use same card index twice"
          [] c = 10 -> "Game is full"
          [] c = 11 -> "Player not found"
          [] c = 12 -> "Game has ended"
          [] c = 13 -> "Not in a game"
          [] c = 14 -> "Internal server error"
          [] c = 15 -> "Tournament not found"
          [] c = 16 -> "Tournament is full"
          [] c = 17 -> "Tournament has already started"
          [] c = 18 -> "Invalid tournament player count (must be 4-50)"]

\* ErrorCode.default_message
default_message(c) == DefaultMessages[c]

---------------------------------------------------------------------------
(* protocol.py: server messages.  A message is a record whose kind is the  *)
(* name of its dataclass.                                                  *)

NoMsg == [kind |-> "NoMsg"]

OkMessage(d) == [kind |-> "OkMessage", details |-> d]

WelcomeMessage(gid, pid, tok) ==
    [kind |-> "WelcomeMessage", game_id |-> gid, player_id |-> pid,
     rejoin_token |-> tok]

RejoinedMessage(gid, pid) ==
    [kind |-> "RejoinedMessage", game_id |-> gid, player_id |-> pid]

CreatedMessage(gid) == [kind |-> "CreatedMessage", game_id |-> gid]

PlayerJoinedMessage(name, pcnt, mp) ==
    [kind |-> "PlayerJoinedMessage", player_name |-> name,
     player_count |-> pcnt, max_players |-> mp]

PlayerLeftMessage(name) == [kind |-> "PlayerLeftMessage", player_name |-> name]

GameStartMessage(pcnt, timeout) ==
    [kind |-> "GameStartMessage", player_count |-> pcnt,
     move_timeout_ms |-> timeout]

RoundStartMessage(r) == [kind |-> "RoundStartMessage", round |-> r]

HandMessage(cards) == [kind |-> "HandMessage", cards |-> cards]

WaitingMessage(players) == [kind |-> "WaitingMessage", players |-> players]

TurnResultMessage(plays) == [kind |-> "TurnResultMessage", plays |-> plays]

RoundEndMessage(r, scores) ==
    [kind |-> "RoundEndMessage", round |-> r, scores |-> scores]

GameEndMessage(fs, w, nid, tw) ==
    [kind |-> "GameEndMessage", final_scores |-> fs, winners |-> w,
     next_game_id |-> nid, tournament_winner |-> tw]

StatusMessage(st) == [kind |-> "StatusMessage", status |-> st]

GamesListMessage(games) == [kind |-> "GamesListMessage", games |-> games]

TournamentWelcomeMessage(tid, pcnt, mp, tok) ==
    [kind |-> "TournamentWelcomeMessage", rejoin_token |-> tok,
     player_count |-> pcnt, max_players |-> mp, tournament_id |-> tid]

TournamentRejoinedMessage(tid, name, mt) ==
    [kind |-> "TournamentRejoinedMessage", player_name |-> name,
     tournament_id |-> tid, current_match_token |-> mt]

TournamentPlayerJoinedMessage(tid, name, pcnt, mp) ==
    [kind |-> "TournamentPlayerJoinedMessage", player_name |-> name,
     player_count |-> pcnt, max_players |-> mp, tournament_id |-> tid]

TournamentMatchAssignedMessage(tid, mt, r, opp) ==
    [kind |-> "TournamentMatchAssignedMessage", round |-> r,
     tournament_id |-> tid, match_token |-> mt, opponent |-> opp]

TournamentCompleteMessage(tid, w) ==
    [kind |-> "TournamentCompleteMessage", tournament_id |-> tid, winner |-> w]

---------------------------------------------------------------------------
(* json.loads (standard library): the documents the server's lines embed.  *)
(* A document is tagged with its shape; any other text is not JSON.        *)

JsonDocs ==
    ( "{\"Me\":10,\"Bob\":8}" :>
          [val |-> ("Me" :> 10 @@ "Bob" :> 8), shape |-> "int_map"] )
    @@ ( "{\"Me\":7,\"Bob\":7}" :>
          [val |-> ("Me" :> 7 @@ "Bob" :> 7), shape |-> "int_map"] )
    @@ ( "{\"Me\":{\"maki_points\":6,\"total\":6}}" :>
          [val |-> ("Me" :> ("maki_points" :> 6 @@ "total" :> 6)),
           shape |-> "dict_map"] )
    @@ ( "{\"Me\":{\"nigiri_points\":2,\"total\":2},\"Bob\":{}}" :>
          [val |-> ("Me" :> ("nigiri_points" :> 2 @@ "total" :> 2)
                    @@ "Bob" :> <<>>),
           shape |-> "dict_map"] )
    @@ ( "{\"game_id\":\"g1\",\"phase\":\"playing\",\"round\":2,\"turn\":1}" :>
          [val |-> [game_id |-> "g1", round |-> 2, phase |-> "playing",
                    turn |-> 1],
           shape |-> "dict"] )
    @@ ( "{\"game_id\":\"g2\",\"phase\":\"lobby\",\"round\":0}" :>
          [val |-> [game_id |-> "g2", round |-> 0, phase |-> "lobby"],
           shape |-> "dict"] )
    @@ ( "[{\"id\":\"g1\",\"player_count\":1,\"max_players\":2,\"status\":\"waiting\"}]" :>
          [val |-> << [player_count |-> 1, max_players |-> 2, status |-> "waiting",
                       id |-> "g1"] >>,
           shape |-> "list"] )
    @@ ( "[]" :> [val |-> <<>>, shape |-> "list"] )

\* json.loads: the value, or json.JSONDecodeError (a ValueError)
json_loads(text) ==
    IF text \in DOMAIN JsonDocs THEN Ok(JsonDocs[text]) ELSE Raise("ValueError")

---------------------------------------------------------------------------
(* protocol.py: parsing.                                                   *)

\* First index at or after p that holds no digit.
RECURSIVE DigitRunEnd(_, _)
DigitRunEnd(s, p) ==
    IF p <= Len(s) /\ IsDigit(Char(s, p)) THEN DigitRunEnd(s, p + 1) ELSE p

\* First index at or after p that holds no whitespace.
RECURSIVE WsRunEnd(_, _)
WsRunEnd(s, p) ==
    IF p <= Len(s) /\ IsWs(Char(s, p)) THEN WsRunEnd(s, p + 1) ELSE p

\* _HAND_TOKEN_RE, the lookahead (?=\s+\d+:|$) tried after index e
HandLookahead(s, e) ==
    LET a == WsRunEnd(s, e + 1)
        b == DigitRunEnd(s, a)
    IN  \/ e = Len(s)
        \/ a > e + 1 /\ b > a /\ b <= Len(s) /\ Char(s, b) = ":"

\* _HAND_TOKEN_RE, the lazy (.+?): the first index at or after e where the
\* lookahead succeeds (it always does at the end of the payload).
RECURSIVE HandNameEnd(_, _)
HandNameEnd(s, e) == IF HandLookahead(s, e) THEN e ELSE HandNameEnd(s, e + 1)

\* _HAND_TOKEN_RE.finditer(payload): the (group 1, group 2) pairs, searching
\* from index p.
RECURSIVE HandTokens(_, _)
HandTokens(s, p) ==
    LET q == DigitRunEnd(s, p)
    IN  IF p > Len(s) THEN <<>>
        ELSE IF q > p /\ q < Len(s) /\ Char(s, q) = ":"
        THEN LET e == HandNameEnd(s, q + 1)
             IN  << <<SubSeq(s, p, q - 1), SubSeq(s, q + 1, e)>> >>
                     \o HandTokens(s, e + 1)
        ELSE HandTokens(s, p + 1)

\* The cards of the tokens, or the first ValueError of Card.from_name.
RECURSIVE HandCards(_)
HandCards(toks) ==
    IF toks = <<>> THEN Ok(<<>>)
    ELSE LET c == from_name(Strip(Head(toks)[2]))
             rest == HandCards(Tail(toks))
         IN  IF ~c.ok THEN c
             ELSE IF ~rest.ok THEN rest
             ELSE Ok(<<HandCard(ToInt(Head(toks)[1]), c.val)>> \o rest.val)

\* _parse_hand
parse_hand(payload) == HandCards(HandTokens(payload, 1))

\* [Card.from_code(c.strip()) for c in codes if c.strip()]
RECURSIVE PlayedCards(_)
PlayedCards(codes) ==
    IF codes = <<>> THEN Ok(<<>>)
    ELSE IF Strip(Head(codes)) = "" THEN PlayedCards(Tail(codes))
    ELSE LET c == from_code(Strip(Head(codes)))
             rest == PlayedCards(Tail(codes))
         IN  IF ~c.ok THEN c
             ELSE IF ~rest.ok THEN rest
             ELSE Ok(<<c.val>> \o rest.val)

RECURSIVE PlayedEntries(_)
PlayedEntries(entries) ==
    IF entries = <<>> THEN Ok(<<>>)
    ELSE IF Strip(Head(entries)) = "" THEN PlayedEntries(Tail(entries))
    ELSE LET nc == SplitOn1(Strip(Head(entries)), ":")
         IN  IF Len(nc) # 2 THEN Raise("ValueError")
             ELSE LET cards == PlayedCards(SplitOn(nc[2], ","))
                      rest == PlayedEntries(Tail(entries))
                  IN  IF ~cards.ok THEN cards
                      ELSE IF ~rest.ok THEN rest
                      ELSE Ok(<< <<nc[1], cards.val>> >> \o rest.val)

\* _parse_played
parse_played(payload) == PlayedEntries(SplitOn(payload, "; "))

\* _parse_round_score
parse_round_score(d) ==
    [maki_points |-> Get0(d, "maki_points"),
     tempura_points |-> Get0(d, "tempura_points"),
     sashimi_points |-> Get0(d, "sashimi_points"),
     dumpling_points |-> Get0(d, "dumpling_points"),
     nigiri_points |-> Get0(d, "nigiri_points"),
     total |-> Get0(d, "total")]

\* _parse_game_end, the brace scan: the index of the brace closing the one
\* at json_start, or json_start when none closes it.
RECURSIVE BraceScan(_, _, _, _)
BraceScan(s, i, depth, json_start) ==
    IF i > Len(s) THEN json_start
    ELSE IF Char(s, i) = "{" THEN BraceScan(s, i + 1, depth + 1, json_start)
    ELSE IF Char(s, i) = "}"
    THEN IF depth - 1 = 0 THEN i ELSE BraceScan(s, i + 1, depth - 1, json_start)
    ELSE BraceScan(s, i + 1, depth, json_start)

\* _parse_game_end, the loop over the tagged tokens after the JSON block
RECURSIVE GameEndParts(_, _)
GameEndParts(parts, acc) ==
    IF parts = <<>> THEN acc
    ELSE LET part == Head(parts)
         IN  GameEndParts(Tail(parts),
                 IF StartsWith(part, "WINNER:")
                 THEN [acc EXCEPT !.winners =
                           SplitOn(SubSeq(part, 8, Len(part)), ",")]
                 ELSE IF StartsWith(part, "NEXT:")
                 THEN [acc EXCEPT !.next_game_id = SubSeq(part, 6, Len(part))]
                 ELSE IF StartsWith(part, "TOURNAMENT_WINNER:")
                 THEN [acc EXCEPT !.tournament_winner =
                           SubSeq(part, 19, Len(part))]
                 ELSE acc)

\* _parse_game_end
parse_game_end(payload) ==
    LET json_start == Find(payload, "{")
        json_end == BraceScan(payload, json_start, 0, json_start)
        doc == json_loads(SubSeq(payload, json_start, json_end))
        rest == Strip(SubSeq(payload, json_end + 1, Len(payload)))
        tags == GameEndParts(Split(rest),
                    [winners |-> <<>>, next_game_id |-> None_,
                     tournament_winner |-> None_])
    IN  IF json_start = 0 THEN Raise("ValueError")
        ELSE IF ~doc.ok THEN doc
        ELSE Ok(GameEndMessage(doc.val.val, tags.winners, tags.next_game_id,
                               tags.tournament_winner))

\* _parse_status_json
parse_status_json(payload) ==
    LET doc == json_loads(payload)
        d == doc.val.val
    IN  IF ~doc.ok THEN doc
        ELSE IF doc.val.shape = "list" THEN Raise("AttributeError")
        ELSE IF ~({"game_id", "phase", "round", "turn"} \subseteq DOMAIN d)
        THEN Raise("KeyError")
        ELSE Ok([game_id |-> d.game_id, round |-> d.round, players |-> <<>>,
                 phase |-> d.phase, turn |-> d.turn,
                 your_played_cards |-> <<>>, your_puddings |-> 0,
                 your_chopsticks |-> 0, your_wasabi_slots |-> 0])

\* _parse_games_list
parse_games_list(payload) ==
    LET doc == json_loads(payload)
        items == doc.val.val
    IN  IF ~doc.ok THEN doc
        ELSE IF doc.val.shape # "list" THEN Raise("TypeError")
        ELSE IF \E i \in DOMAIN items :
                   ~({"id", "player_count", "max_players", "status"}
                         \subseteq DOMAIN items[i])
        THEN Raise("KeyError")
        ELSE Ok(items)

\* "count/max": count, max_p = tok.split("/"); int(count), int(max_p)
ParseCounts(tok) ==
    LET cm == SplitOn(tok, "/")
    IN  IF Len(cm) # 2 THEN Raise("ValueError")
        ELSE IF ~IsInt(cm[1]) \/ ~IsInt(cm[2]) THEN Raise("ValueError")
        ELSE Ok(<<ToInt(cm[1]), ToInt(cm[2])>>)

\* parse_server_message, case "ROUND_END"
ParseRoundEnd(payload) ==
    LET parts == SplitWs(payload, 1)
        doc == json_loads(parts[2])
        raw == doc.val.val
    IN  IF Len(parts) < 1 THEN Raise("IndexError")
        ELSE IF ~IsInt(parts[1]) THEN Raise("ValueError")
        ELSE IF Len(parts) < 2 THEN Raise("IndexError")
        ELSE IF ~doc.ok THEN doc
        ELSE IF doc.val.shape # "dict_map" THEN Raise("AttributeError")
        ELSE Ok(RoundEndMessage(ToInt(parts[1]),
                    [name \in DOMAIN raw |-> parse_round_score(raw[name])]))

\* the opponent field as sent, BYE included
MatchOpponent_KeepsBye(parts) == IF Len(parts) > 3 THEN parts[4] ELSE None_

\* parse_server_message, case "TOURNAMENT_MATCH": the BYE sentinel
MatchOpponent(parts) ==
    LET opponent == IF Len(parts) > 3 THEN parts[4] ELSE None_
    IN  IF opponent = "BYE" THEN None_ ELSE opponent

\* parse_server_message, case "TOURNAMENT_MATCH"
ParseTournamentMatch(payload) ==
    LET parts == Split(payload)
    IN  IF Len(parts) < 2 THEN Raise("IndexError")
        ELSE IF Len(parts) < 3 THEN Raise("IndexError")
        ELSE IF ~IsInt(parts[3]) THEN Raise("ValueError")
        ELSE Ok(TournamentMatchAssignedMessage(parts[1], parts[2],
                    ToInt(parts[3]), MatchOpponent(parts)))

\* parse_server_message: Ok(message), or the exception raised
parse_server_message(l) ==
    LET stripped == Strip(l)
        keyword == Partition(stripped)[1]
        payload == Partition(stripped)[2]
        parts == Split(payload)
    IN  IF stripped = "" THEN Raise("ValueError")
        ELSE CASE keyword = "OK" ->
                 Ok(OkMessage(IF payload # "" THEN payload ELSE None_))
          [] keyword = "ERROR" -> from_line(stripped)
          [] keyword = "WELCOME" ->
                 IF Len(parts) < 2 THEN Raise("IndexError")
                 ELSE IF ~IsInt(parts[2]) THEN Raise("ValueError")
                 ELSE IF Len(parts) < 3 THEN Raise("IndexError")
                 ELSE Ok(WelcomeMessage(parts[1], ToInt(parts[2]), parts[3]))
          [] keyword = "REJOINED" ->
                 IF Len(parts) < 2 THEN Raise("IndexError")
                 ELSE IF ~IsInt(parts[2]) THEN Raise("ValueError")
                 ELSE Ok(RejoinedMessage(parts[1], ToInt(parts[2])))
          [] keyword = "CREATED" -> Ok(CreatedMessage(Strip(payload)))
          [] keyword = "JOINED" ->
                 LET np == RSplit1(payload)
                     cm == ParseCounts(np[2])
                 IN  IF Len(np) < 2 THEN Raise("IndexError")
                     ELSE IF ~cm.ok THEN cm
                     ELSE Ok(PlayerJoinedMessage(np[1], cm.val[1], cm.val[2]))
          [] keyword = "LEFT" -> Ok(PlayerLeftMessage(Strip(payload)))
          [] keyword = "GAME_START" ->
                 IF Len(parts) < 1 THEN Raise("IndexError")
                 ELSE IF ~IsInt(parts[1]) THEN Raise("ValueError")
                 ELSE IF Len(parts) < 2 THEN Raise("IndexError")
                 ELSE IF ~IsInt(parts[2]) THEN Raise("ValueError")
                 ELSE Ok(GameStartMessage(ToInt(parts[1]), ToInt(parts[2])))
          [] keyword = "ROUND_START" ->
                 IF ~IsInt(payload) THEN Raise("ValueError")
                 ELSE Ok(RoundStartMessage(ToInt(payload)))
          [] keyword = "HAND" ->
                 LET cards == parse_hand(payload)
                 IN  IF ~cards.ok THEN cards ELSE Ok(HandMessage(cards.val))
          [] keyword = "WAITING" -> Ok(WaitingMessage(parts))
          [] keyword = "PLAYED" ->
                 LET plays == parse_played(payload)
                 IN  IF ~plays.ok THEN plays
                     ELSE Ok(TurnResultMessage(plays.val))
          [] keyword = "ROUND_END" -> ParseRoundEnd(payload)
          [] keyword = "GAME_END" -> parse_game_end(payload)
          [] keyword = "STATUS" ->
                 LET st == parse_status_json(payload)
                 IN  IF ~st.ok THEN st ELSE Ok(StatusMessage(st.val))
          [] keyword = "GAMES" ->
                 LET games == parse_games_list(payload)
                 IN  IF ~games.ok THEN games
                     ELSE Ok(GamesListMessage(games.val))
          [] keyword = "TOURNAMENT_WELCOME" ->
                 LET cm == ParseCounts(parts[2])
                 IN  IF Len(parts) < 2 THEN Raise("IndexError")
                     ELSE IF ~cm.ok THEN cm
                     ELSE IF Len(parts) < 3 THEN Raise("IndexError")
                     ELSE Ok(TournamentWelcomeMessage(parts[1], cm.val[1],
                                 cm.val[2], parts[3]))
          [] keyword = "TOURNAMENT_REJOINED" ->
                 IF Len(parts) < 2 THEN Raise("IndexError")
                 ELSE Ok(TournamentRejoinedMessage(parts[1], parts[2],
                             IF Len(parts) > 2 THEN parts[3] ELSE None_))
          [] keyword = "TOURNAMENT_JOINED" ->
                 LET cm == ParseCounts(parts[3])
                 IN  IF Len(parts) < 3 THEN Raise("IndexError")
                     ELSE IF ~cm.ok THEN cm
                     ELSE Ok(TournamentPlayerJoinedMessage(parts[1], parts[2],
                                 cm.val[1], cm.val[2]))
          [] keyword = "TOURNAMENT_MATCH" -> ParseTournamentMatch(payload)
          [] keyword = "TOURNAMENT_COMPLETE" ->
                 IF Len(parts) < 2 THEN Raise("IndexError")
                 ELSE Ok(TournamentCompleteMessage(parts[1], parts[2]))
          [] OTHER -> Raise("ValueError")

---------------------------------------------------------------------------
(* protocol.py: command formatting.                                        *)

format_join(game_id, player_name) == "JOIN " \o game_id \o " " \o player_name

format_ready == "READY"

format_play(card_index) == "PLAY " \o IntStr(card_index)

format_chopsticks(card_index1, card_index2) ==
    "CHOPSTICKS " \o IntStr(card_index1) \o " " \o IntStr(card_index2)

format_tourney(tournament_id, player_name) ==
    "TOURNEY " \o tournament_id \o " " \o player_name

format_tjoin(match_token) == "TJOIN " \o match_token

format_rejoin(token) == "REJOIN " \o token

format_status == "STATUS"

format_games == "GAMES"

format_leave == "LEAVE"

---------------------------------------------------------------------------
(* state.py: GameState and GameState.update.                               *)

\* GameState(player_name=name): the dataclass defaults
GameState(name) ==
    [game_id |-> "", player_id |-> -1, rejoin_token |-> "",
     player_name |-> name,
     player_count |-> 0, max_players |-> 0, move_timeout_ms |-> 0, round |-> 0,
     players |-> <<>>, final_scores |-> <<>>,
     winners |-> <<>>, next_game_id |-> None_,
     tournament_winner |-> None_, tournament_id |-> "",
     match_token |-> "", phase |-> "lobby", turn |-> 0,
     hand |-> <<>>,
     last_plays |-> <<>>, round_scores |-> <<>>, tournament_round |-> 0,
     tournament_opponent |-> None_]

\* name in list
InList(x, xs) == \E i \in 1..Len(xs) : xs[i] = x

\* list.remove(x): the first occurrence
RECURSIVE ListRemove(_, _)
ListRemove(xs, x) ==
    IF xs = <<>> THEN <<>>
    ELSE IF Head(xs) = x THEN Tail(xs)
    ELSE <<Head(xs)>> \o ListRemove(Tail(xs), x)

\* d[k] = v on a dict held as a function
DictSet(d, k, v) == [x \in DOMAIN d \cup {k} |-> IF x = k THEN v ELSE d[x]]

\* UpdateWelcome without the phase assignment
UpdateWelcome_KeepsPhase(s, m) ==
    [s EXCEPT !.game_id = m.game_id, !.player_id = m.player_id,
              !.rejoin_token = m.rejoin_token]

\* UpdateWelcome that also forgets the match token
UpdateWelcome_NewSession(s, m) ==
    [s EXCEPT !.game_id = m.game_id, !.player_id = m.player_id,
              !.rejoin_token = m.rejoin_token, !.phase = "lobby",
              !.match_token = ""]

UpdateWelcome(s, m) ==
    [s EXCEPT !.game_id = m.game_id, !.player_id = m.player_id,
              !.rejoin_token = m.rejoin_token, !.phase = "lobby"]

UpdateRejoined(s, m) ==
    [s EXCEPT !.game_id = m.game_id, !.player_id = m.player_id]

\* UpdatePlayerJoined without the membership test
UpdatePlayerJoined_AlwaysAppend(s, m) ==
    [s EXCEPT !.player_count = m.player_count,
              !.max_players = m.max_players,
              !.players = Append(s.players, m.player_name)]

UpdatePlayerJoined(s, m) ==
    [s EXCEPT !.player_count = m.player_count,
              !.max_players = m.max_players,
              !.players = IF ~InList(m.player_name, s.players)
                          THEN Append(s.players, m.player_name)
                          ELSE s.players]

UpdatePlayerLeft(s, m) ==
    IF InList(m.player_name, s.players)
    THEN [s EXCEPT !.players = ListRemove(s.players, m.player_name),
                   !.player_count = Len(ListRemove(s.players, m.player_name))]
    ELSE s

\* UpdateGameStart without the reset of round
UpdateGameStart_KeepsRound(s, m) ==
    [s EXCEPT !.player_count = m.player_count,
              !.move_timeout_ms = m.move_timeout_ms,
              !.phase = "playing", !.turn = 0]

UpdateGameStart(s, m) ==
    [s EXCEPT !.player_count = m.player_count,
              !.move_timeout_ms = m.move_timeout_ms,
              !.phase = "playing", !.round = 0, !.turn = 0]

\* UpdateRoundStart that also empties the hand
UpdateRoundStart_ClearsHand(s, m) ==
    [s EXCEPT !.round = m.round, !.turn = 0, !.last_plays = <<>>,
              !.hand = <<>>]

UpdateRoundStart(s, m) ==
    [s EXCEPT !.round = m.round, !.turn = 0, !.last_plays = <<>>]

\* UpdateHand that adds the cards to the hand it holds
UpdateHand_Extend(s, m) ==
    [s EXCEPT !.hand = s.hand \o m.cards, !.turn = s.turn + 1]

UpdateHand(s, m) == [s EXCEPT !.hand = m.cards, !.turn = s.turn + 1]

UpdateTurnResult(s, m) == [s EXCEPT !.last_plays = m.plays]

\* UpdateRoundEnd that keeps the breakdown a round already has
UpdateRoundEnd_KeepFirst(s, m) ==
    [s EXCEPT !.round_scores =
                  IF m.round \in DOMAIN s.round_scores THEN s.round_scores
                  ELSE DictSet(s.round_scores, m.round, m.scores)]

\* UpdateRoundEnd that keeps the last round only
UpdateRoundEnd_Replace(s, m) ==
    [s EXCEPT !.round_scores = DictSet(<<>>, m.round, m.scores)]

UpdateRoundEnd(s, m) ==
    [s EXCEPT !.round_scores = DictSet(s.round_scores, m.round, m.scores)]

\* UpdateGameEnd that assigns the optional fields only when present
UpdateGameEnd_KeepsOptional(s, m) ==
    [s EXCEPT !.final_scores = m.final_scores, !.winners = m.winners,
              !.next_game_id = IF m.next_game_id = None_
                               THEN s.next_game_id ELSE m.next_game_id,
              !.tournament_winner = IF m.tournament_winner = None_
                                    THEN s.tournament_winner
                                    ELSE m.tournament_winner,
              !.phase = "ended"]

UpdateGameEnd(s, m) ==
    [s EXCEPT !.final_scores = m.final_scores, !.winners = m.winners,
              !.next_game_id = m.next_game_id,
              !.tournament_winner = m.tournament_winner,
              !.phase = "ended"]

\* a Status fold that never leaves the phase ended
UpdateStatus_ForwardOnly(s, m) ==
    [s EXCEPT !.game_id = m.status.game_id,
              !.phase = IF s.phase = "ended" THEN s.phase ELSE m.status.phase,
              !.round = m.status.round, !.turn = m.status.turn]

UpdateStatus(s, m) ==
    [s EXCEPT !.game_id = m.status.game_id, !.phase = m.status.phase,
              !.round = m.status.round, !.turn = m.status.turn]

UpdateTournamentWelcome(s, m) == [s EXCEPT !.tournament_id = m.tournament_id]

\* UpdateTournamentMatchAssigned that keeps the hand of the last game
UpdateTournamentMatchAssigned_KeepsHand(s, m) ==
    [s EXCEPT !.tournament_id = m.tournament_id,
              !.match_token = m.match_token,
              !.tournament_round = m.round,
              !.tournament_opponent = m.opponent,
              !.phase = "lobby", !.round = 0, !.turn = 0,
              !.last_plays = <<>>, !.round_scores = <<>>,
              !.final_scores = <<>>, !.winners = <<>>,
              !.next_game_id = None_]

\* UpdateTournamentMatchAssigned without the phase reset
UpdateTournamentMatchAssigned_KeepsPhase(s, m) ==
    [s EXCEPT !.tournament_id = m.tournament_id,
              !.match_token = m.match_token,
              !.tournament_round = m.round,
              !.tournament_opponent = m.opponent,
              !.round = 0, !.turn = 0,
              !.hand = <<>>, !.last_plays = <<>>, !.round_scores = <<>>,
              !.final_scores = <<>>, !.winners = <<>>,
              !.next_game_id = None_]

UpdateTournamentMatchAssigned(s, m) ==
    [s EXCEPT !.tournament_id = m.tournament_id,
              !.match_token = m.match_token,
              !.tournament_round = m.round,
              !.tournament_opponent = m.opponent,
              !.phase = "lobby", !.round = 0, !.turn = 0,
              !.hand = <<>>, !.last_plays = <<>>, !.round_scores = <<>>,
              !.final_scores = <<>>, !.winners = <<>>,
              !.next_game_id = None_]

\* UpdateTournamentComplete that also ends the game
UpdateTournamentComplete_Ends(s, m) ==
    [s EXCEPT !.tournament_winner = m.winner, !.phase = "ended"]

UpdateTournamentComplete(s, m) == [s EXCEPT !.tournament_winner = m.winner]

\* update with a tournament join counted as a join of the game
update_TournamentJoinCounts(s, m) ==
    CASE m.kind = "WelcomeMessage" -> UpdateWelcome(s, m)
      [] m.kind = "RejoinedMessage" -> UpdateRejoined(s, m)
      [] m.kind = "PlayerJoinedMessage" -> UpdatePlayerJoined(s, m)
      [] m.kind = "PlayerLeftMessage" -> UpdatePlayerLeft(s, m)
      [] m.kind = "GameStartMessage" -> UpdateGameStart(s, m)
      [] m.kind = "RoundStartMessage" -> UpdateRoundStart(s, m)
      [] m.kind = "HandMessage" -> UpdateHand(s, m)
      [] m.kind = "WaitingMessage" -> s
      [] m.kind = "TurnResultMessage" -> UpdateTurnResult(s, m)
      [] m.kind = "RoundEndMessage" -> UpdateRoundEnd(s, m)
      [] m.kind = "GameEndMessage" -> UpdateGameEnd(s, m)
      [] m.kind = "StatusMessage" -> UpdateStatus(s, m)
      [] m.kind = "TournamentWelcomeMessage" -> UpdateTournamentWelcome(s, m)
      [] m.kind = "TournamentMatchAssignedMessage" ->
             UpdateTournamentMatchAssigned(s, m)
      [] m.kind = "TournamentCompleteMessage" -> UpdateTournamentComplete(s, m)
      [] m.kind = "TournamentPlayerJoinedMessage" ->
             UpdatePlayerJoined(s, m)
      [] OTHER -> s

\* GameState.update: the state after folding message m into s
update(s, m) ==
    CASE m.kind = "WelcomeMessage" -> UpdateWelcome(s, m)
      [] m.kind = "RejoinedMessage" -> UpdateRejoined(s, m)
      [] m.kind = "PlayerJoinedMessage" -> UpdatePlayerJoined(s, m)
      [] m.kind = "PlayerLeftMessage" -> UpdatePlayerLeft(s, m)
      [] m.kind = "GameStartMessage" -> UpdateGameStart(s, m)
      [] m.kind = "RoundStartMessage" -> UpdateRoundStart(s, m)
      [] m.kind = "HandMessage" -> UpdateHand(s, m)
      [] m.kind = "WaitingMessage" -> s
      [] m.kind = "TurnResultMessage" -> UpdateTurnResult(s, m)
      [] m.kind = "RoundEndMessage" -> UpdateRoundEnd(s, m)
      [] m.kind = "GameEndMessage" -> UpdateGameEnd(s, m)
      [] m.kind = "StatusMessage" -> UpdateStatus(s, m)
      [] m.kind = "TournamentWelcomeMessage" -> UpdateTournamentWelcome(s, m)
      [] m.kind = "TournamentMatchAssignedMessage" ->
             UpdateTournamentMatchAssigned(s, m)
      [] m.kind = "TournamentCompleteMessage" -> UpdateTournamentComplete(s, m)
      [] OTHER -> s

---------------------------------------------------------------------------
(* connection.py: SyncConnection.  The transport is external: every call   *)
(* on it draws its outcome.                                                *)

\* SyncConnection.__init__: _sock = None, _file = None
NewConnection == [sock |-> FALSE, file |-> FALSE]

\* SyncConnection.connect: the connection after each outcome.  A failure
\* leaves _sock unset (socket() failed) or set without _file (connect failed).
ConnectOutcomes ==
    {[conn |-> [sock |-> TRUE, file |-> TRUE], ok |-> TRUE]}
    \cup {[conn |-> [sock |-> sk, file |-> FALSE], exc |-> e, ok |-> FALSE] :
              e \in {"TimeoutError", "ConnectionError"}, sk \in BOOLEAN}

\* SyncConnection.send_line
SendOutcomes(c) ==
    IF ~c.sock THEN {Raise("ConnectionError")}
    ELSE {[ok |-> TRUE], Raise("TimeoutError"), Raise("ConnectionError")}

\* The lines the server may deliver to run_bot.
BotLines ==
    {"OK",
     "ERROR E005 Game not found",
     "ERROR E005",
     "WELCOME g1 0 tok",
     "GAME_START 2 300",
     "ROUND_START 1",
     "HAND 0:Tempura 1:Salmon Nigiri",
     "HAND 0:Pudding",
     "PLAYED Me:TMP; Bob:MK3,WAS",
     "ROUND_END 1 {\"Me\":{\"maki_points\":6,\"total\":6}}",
     "GAME_END {\"Me\":10,\"Bob\":8} WINNER:Me",
     "BOGUS x"}

\* The lines the server may deliver to run_tournament_bot.
TournamentLines ==
    {"OK",
     "ERROR E005 Game not found",
     "WELCOME g1 0 tok",
     "GAME_START 2 300",
     "HAND 0:Tempura 1:Salmon Nigiri",
     "GAME_END {\"Me\":10,\"Bob\":8} WINNER:Me",
     "TOURNAMENT_WELCOME t1 2/4 ttok",
     "TOURNAMENT_MATCH t1 m1 1 Bob",
     "TOURNAMENT_MATCH t1 m2 2 BYE",
     "TOURNAMENT_COMPLETE t1 Bob",
     "WELCOME g1",
     "BOGUS x"}

\* Further lines of a valid session, for the scripted message sequences.
ScriptLines ==
    {"WELCOME g2 1 tok2",
     "JOINED Me 1/2",
     "JOINED Bob 2/2",
     "HAND 0:Pudding",
     "PLAYED Me:TMP; Bob:MK3,WAS",
     "GAME_END {\"Me\":7,\"Bob\":7} WINNER:Me,Bob"}

\* Every line the model delivers, and what parse_server_message makes of it.
ServerLines == BotLines \cup TournamentLines \cup ScriptLines

Parsed == [l \in ServerLines |-> parse_server_message(l)]

\* SyncConnection.recv_line: a line, or the exception raised; an interrupt
\* may arrive while the receive blocks.
RecvOutcomes(c, lines) ==
    IF ~c.file THEN {Raise("ConnectionError")}
    ELSE {Ok(l) : l \in lines}
         \cup {Raise("TimeoutError"), Raise("ConnectionError"),
               Raise("KeyboardInterrupt")}

\* close that leaves the socket open
Close_FileOnly(c) == [sock |-> c.sock, file |-> FALSE]

\* SyncConnection.close
Close(c) == [sock |-> FALSE, file |-> FALSE]

---------------------------------------------------------------------------
(* bot.py: the events a handler produces, in order.                        *)

\* recv_line, parse_server_message and state.update completed for a line
Fold(at, l, m) == [line |-> l, msg |-> m, at |-> at, ev |-> "fold"]

\* a Bot method was called with arguments args and the state st
Call(fn, args, st) == [ev |-> "call", fn |-> fn, args |-> args, seen |-> st]

\* send_line(l) completed
Sent(l) == [line |-> l, ev |-> "send"]

\* operation op raised e
Raised(op, e) == [exc |-> e, ev |-> "raise", op |-> op]

Events(lg, kind) == {i \in 1..Len(lg) : lg[i].ev = kind}

NoChoice == [kind |-> "none"]

\* What Bot.choose_card may return: an index, or a pair of indices.
Choices ==
    {[kind |-> "int", a |-> i] : i \in 0..MaxChoice}
    \cup {[kind |-> "tuple", a |-> i, b |-> j] : i, j \in 0..MaxChoice}

\* Command without the isinstance(choice, tuple) branch
Command_PlayOnly(ch) == format_play(ch.a)

\* _run_game_loop: the command sent for a choice
Command(ch) ==
    IF ch.kind = "tuple" THEN format_chopsticks(ch.a, ch.b)
    ELSE format_play(ch.a)

\* _run_game_loop: the Bot method called for a message, with the state st
\* it is given
GameCallbacks(m, st) ==
    CASE m.kind = "GameStartMessage" -> <<Call("on_game_start", <<>>, st)>>
      [] m.kind = "RoundStartMessage" ->
             <<Call("on_round_start", <<m.round>>, st)>>
      [] m.kind = "HandMessage" -> <<Call("choose_card", <<st.hand>>, st)>>
      [] m.kind = "TurnResultMessage" ->
             <<Call("on_turn_result", <<m.plays>>, st)>>
      [] m.kind = "RoundEndMessage" ->
             <<Call("on_round_end", <<m.round>>, st)>>
      [] m.kind = "GameEndMessage" -> <<Call("on_game_end", <<>>, st)>>
      [] OTHER -> <<>>

\* TournamentCallbacks with on_tournament_complete called a second time
TournamentCallbacks_Twice(m, st) ==
    CASE m.kind = "TournamentMatchAssignedMessage" ->
             <<Call("on_tournament_match", <<>>, st)>>
      [] m.kind = "TournamentCompleteMessage" ->
             <<Call("on_tournament_complete", <<m.winner>>, st),
               Call("on_tournament_complete", <<m.winner>>, st)>>
      [] OTHER -> <<>>

\* run_tournament_bot: the Bot method called for a message of the
\* tournament loop
TournamentCallbacks(m, st) ==
    CASE m.kind = "TournamentMatchAssignedMessage" ->
             <<Call("on_tournament_match", <<>>, st)>>
      [] m.kind = "TournamentCompleteMessage" ->
             <<Call("on_tournament_complete", <<m.winner>>, st)>>
      [] OTHER -> <<>>

\* line = conn.recv_line(); msg = parse_server_message(line): the outcomes.
\* The server deals no further hand once MaxTurn hands were folded.
Received(c, st, lines) ==
    {r \in RecvOutcomes(c, lines) :
        r.ok => (Parsed[r.val].ok /\ Parsed[r.val].val.kind = "HandMessage"
                     => st.turn < MaxTurn)}

\* a receive whose message is never passed to state.update
Folded_NoUpdate(st, parsed) == st

\* state.update(msg) runs only when parse_server_message returned
Folded(st, parsed) == IF parsed.ok THEN update(st, parsed.val) ELSE st

---------------------------------------------------------------------------
(* bot.py: run_bot and run_tournament_bot.  pc names the statement the     *)
(* operation is about to execute; "returned" and "raised" are its exits.   *)

\* run_bot(bot, game_id, name) and run_tournament_bot(bot, tournament_id,
\* name): the arguments
GameId == "g1"

TournamentId == "t1"

PlayerName == "Me"

\* The finally clause of run_bot and run_tournament_bot: conn.close()
Finally ==
    /\ conn' = Close(conn)
    /\ closes' = closes + 1

\* an exception that is caught and the statement tried again
Abort_Retry(op, e, base) ==
    /\ pc' = pc
    /\ exc' = e
    /\ log' = Append(base, Raised(op, e))
    /\ UNCHANGED <<conn, closes>>

\* An exception leaves the operation through the finally clause.
Abort(op, e, base) ==
    /\ pc' = "raised"
    /\ exc' = e
    /\ log' = Append(base, Raised(op, e))
    /\ Finally

\* conn.connect(), first statement of the try block
Connect(next) ==
    /\ pc = "connect"
    /\ \E r \in ConnectOutcomes :
           IF r.ok
           THEN /\ conn' = r.conn
                /\ pc' = next
                /\ UNCHANGED <<exc, closes, log>>
           ELSE /\ conn' = Close(r.conn)
                /\ closes' = closes + 1
                /\ pc' = "raised"
                /\ exc' = r.exc
                /\ log' = Append(log, Raised("connect", r.exc))
    /\ UNCHANGED <<state, line, msg, choice>>

\* conn.send_line(l)
Send(here, l, next) ==
    /\ pc = here
    /\ \E r \in SendOutcomes(conn) :
           IF r.ok
           THEN /\ log' = Append(log, Sent(l))
                /\ pc' = next
                /\ UNCHANGED <<conn, exc, closes>>
           ELSE Abort("send_line", r.exc, log)
    /\ UNCHANGED <<state, line, msg>>

\* msg = parse_server_message(conn.recv_line()); state.update(msg)
\* as a statement of its own: the reply to a command
RecvReply(here, at, next, lines) ==
    /\ pc = here
    /\ \E r \in Received(conn, state, lines) :
           IF ~r.ok
           THEN /\ Abort("recv_line", r.exc, log)
                /\ UNCHANGED <<state, line, msg>>
           ELSE LET parsed == Parsed[r.val]
                IN  /\ line' = r.val
                    /\ state' = Folded(state, parsed)
                    /\ IF ~parsed.ok
                       THEN /\ Abort("parse_server_message", parsed.exc, log)
                            /\ msg' = msg
                       ELSE /\ msg' = parsed.val
                            /\ log' = Append(log, Fold(at, r.val, parsed.val))
                            /\ pc' = next
                            /\ UNCHANGED <<conn, exc, closes>>
    /\ UNCHANGED choice

\* GameLoopEvents with the hand of the turn before passed to the Bot method
GameLoopEvents_StaleHand(st, l, m) ==
    <<Fold("game", l, m)>>
        \o GameCallbacks(m, [update(st, m) EXCEPT !.hand = st.hand])

\* GameLoopEvents with the Bot method called before state.update
GameLoopEvents_CallFirst(st, l, m) ==
    <<Fold("game", l, m)>> \o GameCallbacks(m, st)

\* _run_game_loop: the events of one iteration, state.update first and the
\* Bot method after it
GameLoopEvents(st, l, m) ==
    <<Fold("game", l, m)>> \o GameCallbacks(m, update(st, m))

\* GameLoopNext without the return of the GameEndMessage case
GameLoopNext_NoReturn(m, after) ==
    CASE m.kind = "HandMessage" -> "game_send"
      [] OTHER -> "game_recv"

\* _run_game_loop: where the iteration goes after message m; after is where
\* the caller continues when the loop returns
GameLoopNext(m, after) ==
    CASE m.kind = "HandMessage" -> "game_send"
      [] m.kind = "GameEndMessage" -> after
      [] OTHER -> "game_recv"

\* _run_game_loop: one iteration up to the dispatch
GameRecv(after, lines) ==
    /\ pc = "game_recv"
    /\ \E r \in Received(conn, state, lines) :
           IF ~r.ok
           THEN /\ Abort("recv_line", r.exc, <<>>)
                /\ UNCHANGED <<state, line, msg, choice>>
           ELSE LET parsed == Parsed[r.val]
                IN  /\ line' = r.val
                    /\ state' = Folded(state, parsed)
                    /\ IF ~parsed.ok
                       THEN /\ Abort("parse_server_message", parsed.exc, <<>>)
                            /\ UNCHANGED <<msg, choice>>
                       ELSE /\ msg' = parsed.val
                            /\ log' = GameLoopEvents(state, r.val, parsed.val)
                            /\ pc' = GameLoopNext(parsed.val, after)
                            /\ exc' = exc
                            /\ IF parsed.val.kind = "HandMessage"
                               THEN choice' \in Choices
                               ELSE choice' = choice
                            /\ IF pc' = "returned"
                               THEN Finally
                               ELSE UNCHANGED <<conn, closes>>

\* _run_game_loop: conn.send_line of the chosen command; choice is not read
\* again afterwards
GameSend ==
    /\ Send("game_send", Command(choice), "game_recv")
    /\ choice' = NoChoice

\* run_bot: conn.connect()
BotConnect == Connect("join_send")

\* run_bot: conn.send_line(format_join(game_id, name))
BotSendJoin ==
    /\ Send("join_send", format_join(GameId, PlayerName), "join_recv")
    /\ UNCHANGED choice

\* run_bot: the reply to JOIN is parsed and folded
BotRecvJoin == RecvReply("join_recv", "join", "ready_send", BotLines)

\* conn.send_line(format_ready())
SendReady ==
    /\ Send("ready_send", format_ready, "ready_recv")
    /\ UNCHANGED choice

\* the reply to READY is parsed and folded; _run_game_loop is entered
RecvReady(lines) == RecvReply("ready_recv", "ready", "game_recv", lines)

\* run_bot: return _run_game_loop(bot, conn, state)
BotGameRecv == GameRecv("returned", BotLines)

\* run_bot and run_tournament_bot: conn = SyncConnection(...);
\* state = GameState(player_name=name)
Init ==
    /\ pc = "connect"
    /\ state = GameState(PlayerName)
    /\ conn = NewConnection
    /\ line = ""
    /\ msg = NoMsg
    /\ choice = NoChoice
    /\ exc = None_
    /\ closes = 0
    /\ log = <<>>

\* run_bot
NextBot ==
    \/ BotConnect
    \/ BotSendJoin
    \/ BotRecvJoin
    \/ SendReady
    \/ RecvReady(BotLines)
    \/ BotGameRecv
    \/ GameSend

SpecBot == Init /\ [][NextBot]_vars

\* run_bot with its scheduling: the thread goes on to send_line once
\* choose_card returned, and a server that ends its games delivers GAME_END
\* to a loop that keeps receiving.
SpecBotLive ==
    /\ SpecBot
    /\ WF_vars(GameSend)
    /\ SF_vars(BotGameRecv /\ pc' = "returned")

\* run_tournament_bot: conn.connect()
TournamentConnect == Connect("tourney_send")

\* run_tournament_bot: conn.send_line(format_tourney(tournament_id, name))
SendTourney ==
    /\ Send("tourney_send", format_tourney(TournamentId, PlayerName),
            "tourney_recv")
    /\ UNCHANGED choice

\* run_tournament_bot: the reply to TOURNEY is parsed and folded
RecvTourney ==
    RecvReply("tourney_recv", "tourney", "match_recv", TournamentLines)

\* run_tournament_bot: the events of one iteration of the tournament loop
TournamentLoopEvents(st, l, m) ==
    <<Fold("tournament", l, m)>>
        \o TournamentCallbacks(m, update(st, m))

\* TournamentLoopNext without the TJOIN exchange
TournamentLoopNext_SkipJoin(m) ==
    CASE m.kind = "TournamentMatchAssignedMessage" -> "ready_send"
      [] m.kind = "TournamentCompleteMessage" -> "returned"
      [] OTHER -> "match_recv"

\* run_tournament_bot: where an iteration of the tournament loop goes
TournamentLoopNext(m) ==
    CASE m.kind = "TournamentMatchAssignedMessage" -> "tjoin_send"
      [] m.kind = "TournamentCompleteMessage" -> "returned"
      [] OTHER -> "match_recv"

\* run_tournament_bot: one iteration of the tournament loop up to the
\* dispatch
MatchRecv ==
    /\ pc = "match_recv"
    /\ \E r \in Received(conn, state, TournamentLines) :
           IF ~r.ok
           THEN /\ Abort("recv_line", r.exc, <<>>)
                /\ UNCHANGED <<state, line, msg>>
           ELSE LET parsed == Parsed[r.val]
                IN  /\ line' = r.val
                    /\ state' = Folded(state, parsed)
                    /\ IF ~parsed.ok
                       THEN /\ Abort("parse_server_message", parsed.exc, <<>>)
                            /\ msg' = msg
                       ELSE /\ msg' = parsed.val
                            /\ log' = TournamentLoopEvents(state, r.val,
                                                           parsed.val)
                            /\ pc' = TournamentLoopNext(parsed.val)
                            /\ exc' = exc
                            /\ IF pc' = "returned"
                               THEN Finally
                               ELSE UNCHANGED <<conn, closes>>
    /\ UNCHANGED choice

\* run_tournament_bot: conn.send_line(format_tjoin(mt)), mt bound by the
\* match on the assignment
SendTjoin ==
    /\ Send("tjoin_send", format_tjoin(msg.match_token), "tjoin_recv")
    /\ UNCHANGED choice

\* run_tournament_bot: the reply to TJOIN is parsed and folded
RecvTjoin == RecvReply("tjoin_recv", "tjoin", "ready_send", TournamentLines)

\* run_tournament_bot: _run_game_loop(bot, conn, state), its result dropped
TournamentGameRecv == GameRecv("match_recv", TournamentLines)

\* run_tournament_bot
NextTournament ==
    \/ TournamentConnect
    \/ SendTourney
    \/ RecvTourney
    \/ MatchRecv
    \/ SendTjoin
    \/ RecvTjoin
    \/ SendReady
    \/ RecvReady(TournamentLines)
    \/ TournamentGameRecv
    \/ GameSend

SpecTournament == Init /\ [][NextTournament]_vars

---------------------------------------------------------------------------
(* state.py: GameState.update folded over a valid message sequence, as     *)
(* tests/test_state.py does: Welcome, PlayerJoined*, GameStart, rounds of  *)
(* RoundStart, (Hand, TurnResult)+, RoundEnd, then GameEnd; in a           *)
(* tournament a TournamentMatchAssigned precedes each game.  pc is the     *)
(* position in the sequence and log the phases the state went through.     *)

\* The messages of one variant that the codec yields for the model's lines
MessagesOf(kind) ==
    {Parsed[l].val :
        l \in {x \in ServerLines : Parsed[x].ok /\ Parsed[x].val.kind = kind}}

\* state.update(m) for the next message m of the sequence
Feed(here, m, next) ==
    /\ pc = here
    /\ msg' = m
    /\ state' = update(state, m)
    /\ log' = IF state'.phase # state.phase THEN Append(log, state'.phase)
              ELSE log
    /\ pc' = next
    /\ UNCHANGED <<conn, line, choice, exc, closes>>

FeedWelcome ==
    \E m \in MessagesOf("WelcomeMessage") :
        \/ Feed("seq_start", m, "seq_lobby")
        \/ Feed("seq_assigned", m, "seq_lobby")

FeedPlayerJoined ==
    \E m \in MessagesOf("PlayerJoinedMessage") :
        Feed("seq_lobby", m, "seq_lobby")

FeedGameStart ==
    \E m \in MessagesOf("GameStartMessage") :
        Feed("seq_lobby", m, "seq_playing")

FeedRoundStart ==
    /\ state.round < MaxRounds
    /\ Feed("seq_playing", RoundStartMessage(state.round + 1), "seq_round")

FeedHand ==
    /\ state.turn < MaxTurn
    /\ \E m \in MessagesOf("HandMessage") : Feed("seq_round", m, "seq_hand")

FeedTurnResult ==
    \E m \in MessagesOf("TurnResultMessage") :
        Feed("seq_hand", m, "seq_round")

FeedRoundEnd ==
    /\ state.turn > 0
    /\ \E m \in MessagesOf("RoundEndMessage") :
           Feed("seq_round", RoundEndMessage(state.round, m.scores),
                "seq_playing")

FeedGameEnd ==
    \E m \in MessagesOf("GameEndMessage") :
        \/ Feed("seq_playing", m, "seq_ended")
        \/ state.turn > 0 /\ Feed("seq_round", m, "seq_ended")

FeedTournamentMatchAssigned ==
    /\ state.tournament_round < MaxMatches
    /\ \E m \in MessagesOf("TournamentMatchAssignedMessage") :
           LET a == TournamentMatchAssignedMessage(
                        m.tournament_id, m.match_token,
                        state.tournament_round + 1, m.opponent)
           IN  \/ Feed("seq_start", a, "seq_assigned")
               \/ Feed("seq_ended", a, "seq_assigned")

\* state = GameState(): a fresh state, nothing folded
InitSeq ==
    /\ pc = "seq_start"
    /\ state = GameState("")
    /\ conn = NewConnection
    /\ line = ""
    /\ msg = NoMsg
    /\ choice = NoChoice
    /\ exc = None_
    /\ closes = 0
    /\ log = <<>>

NextSeq ==
    \/ FeedWelcome
    \/ FeedPlayerJoined
    \/ FeedGameStart
    \/ FeedRoundStart
    \/ FeedHand
    \/ FeedTurnResult
    \/ FeedRoundEnd
    \/ FeedGameEnd
    \/ FeedTournamentMatchAssigned

SpecSeq == InitSeq /\ [][NextSeq]_vars

\* C1: over a valid message sequence the phase only steps forward,
\* lobby -> playing -> ended, except that a TournamentMatchAssigned folded
\* after a finished game takes it from ended back to lobby, and every such
\* assignment does so: the backward steps are exactly those assignments.
C1_PhaseForward ==
    [][ /\ \/ state'.phase = state.phase
           \/ state.phase = "lobby" /\ state'.phase = "playing"
           \/ state.phase = "playing" /\ state'.phase = "ended"
           \/ /\ msg'.kind = "TournamentMatchAssignedMessage"
              /\ state.phase = "ended"
              /\ state'.phase = "lobby"
        /\ (pc = "seq_ended" /\ pc' = "seq_assigned")
               => state.phase = "ended" /\ state'.phase = "lobby"
      ]_vars

\* C1 witness: a second game was played after a match assignment took the
\* finished first game back to the lobby.
C1_Witness ==
    /\ pc = "seq_ended"
    /\ log = <<"playing", "ended", "lobby", "playing", "ended">>
    /\ state.tournament_round = 1

---------------------------------------------------------------------------
(* The control loops: properties of run_bot (SpecBot) and of               *)
(* run_tournament_bot (SpecTournament).                                    *)

Last(lg) == lg[Len(lg)]

\* log holds an iteration of _run_game_loop
GameIteration == log # <<>> /\ log[1].ev = "fold" /\ log[1].at = "game"

\* log holds an iteration of the loop of run_tournament_bot
TournamentIteration ==
    log # <<>> /\ log[1].ev = "fold" /\ log[1].at = "tournament"

\* the READY command was sent as event i of log
ReadySentAt(i) == log[i].ev = "send" /\ log[i].line = "READY"

\* C2: in _run_game_loop a Hand message is followed by exactly one call of
\* choose_card (with the hand and the state just updated) and then exactly
\* one command, PLAY i for an int and CHOPSTICKS i j for a pair, before the
\* next line is received; no other message has a line sent for it.
C2_OneCommandPerHand ==
    /\ [](GameIteration /\ pc \in {"game_recv", "game_send"} =>
            LET calls == {i \in Events(log, "call") :
                             log[i].fn = "choose_card"}
                sends == Events(log, "send")
            IN  IF log[1].msg.kind = "HandMessage"
                THEN /\ calls = {2}
                     /\ log[2].args = <<state.hand>>
                     /\ log[2].seen = state
                     /\ IF pc = "game_send"
                        THEN sends = {} /\ choice \in Choices
                        ELSE sends = {3} /\ Len(log) = 3
                ELSE calls = {} /\ sends = {} /\ pc = "game_recv")
    /\ [][pc = "game_send" =>
            /\ <<state', line', msg'>> = <<state, line, msg>>
            /\ pc' = "game_recv" =>
                   log' = Append(log,
                              Sent(IF choice.kind = "tuple"
                                   THEN format_chopsticks(choice.a, choice.b)
                                   ELSE format_play(choice.a)))
       ]_vars

\* C2 witness: a pair was chosen for a hand and CHOPSTICKS was sent for it.
C2_Witness ==
    /\ pc = "game_recv"
    /\ GameIteration
    /\ log[1].msg.kind = "HandMessage"
    /\ Len(log) = 3
    /\ log[3] = Sent("CHOPSTICKS 0 1")

\* C3: run_bot returns exactly when its game loop has folded a GameEnd:
\* on_game_end was then called once with the updated state, whose phase is
\* ended, nothing was sent, and nothing is received or sent afterwards;
\* after any other message the loop is still running; a loop to which
\* GAME_END is eventually delivered eventually returns, unless a failure
\* ended it before.
C3_ReturnsOnGameEnd ==
    /\ [](pc = "returned" <=>
            (GameIteration /\ log[1].msg.kind = "GameEndMessage"))
    /\ [](pc = "returned" =>
            /\ Len(log) = 2
            /\ log[1].msg = msg
            /\ log[2] = Call("on_game_end", <<>>, state)
            /\ state.phase = "ended"
            /\ exc = None_)
    /\ [][pc # "returned"]_vars
    /\ (pc \in {"game_recv", "game_send"}) ~> (pc \in {"returned", "raised"})

\* C3 witness: the loop returned after a game that was started and played.
C3_Witness ==
    /\ pc = "returned"
    /\ state.phase = "ended"
    /\ state.turn > 0
    /\ state.winners = <<"Me">>

\* C4: READY is sent only when the reply to JOIN was received and is a
\* Welcome (any other reply makes run_bot fail), and the game loop is
\* entered only after the reply to READY was folded.
C4_ReadyOnlyAfterWelcome ==
    /\ \A i \in 1..Len(log) :
           ReadySentAt(i) =>
               /\ i > 1
               /\ log[i - 1].ev = "fold"
               /\ log[i - 1].at = "join"
               /\ log[i - 1].msg.kind = "WelcomeMessage"
    /\ pc = "ready_send" => Last(log).msg.kind = "WelcomeMessage"
    /\ (pc = "game_recv" /\ ~GameIteration) =>
           Last(log).ev = "fold" /\ Last(log).at = "ready"

\* C5: a TournamentMatchAssigned or TournamentComplete is never consumed by
\* the game loop: whenever one is folded it is the tournament loop that
\* folds it, and the call of its Bot method follows.
C5_HandedBackToTournament ==
    \A i \in 1..Len(log) :
        ( /\ log[i].ev = "fold"
          /\ log[i].at \in {"game", "tournament"}
          /\ log[i].msg.kind \in {"TournamentMatchAssignedMessage",
                                   "TournamentCompleteMessage"} )
        => /\ log[i].at = "tournament"
           /\ i < Len(log)
           /\ log[i + 1].ev = "call"
           /\ log[i + 1].fn \in {"on_tournament_match",
                                  "on_tournament_complete"}

\* C6: after a match assignment whose opponent is BYE (parsed as None) the
\* tournament loop sends nothing and is back at its receive.
C6_ByeSkipsMatch ==
    ( /\ TournamentIteration
      /\ log[1].msg.kind = "TournamentMatchAssignedMessage"
      /\ log[1].msg.opponent = None_ )
    => /\ Events(log, "send") = {}
       /\ pc \in {"match_recv", "raised"}

\* The events that follow a match assignment, in order: event i of log
MatchStep(i) ==
    CASE i = 2 -> /\ log[2].ev = "call"
                  /\ log[2].fn = "on_tournament_match"
                  /\ log[2].seen.phase = "lobby"
                  /\ log[2].seen.round = 0
                  /\ log[2].seen.turn = 0
                  /\ log[2].seen.hand = <<>>
                  /\ log[2].seen.match_token = log[1].msg.match_token
                  /\ log[2].seen.tournament_round = log[1].msg.round
      [] i = 3 -> log[3] = Sent("TJOIN " \o log[1].msg.match_token)
      [] i = 4 -> log[4].ev = "fold" /\ log[4].at = "tjoin"
      [] i = 5 -> log[5] = Sent("READY")
      [] i = 6 -> log[6].ev = "fold" /\ log[6].at = "ready"
      [] OTHER -> log[i].ev = "raise" /\ pc = "raised"

\* C7: after a non-BYE match assignment received by the tournament loop
\* the steps are, in order and once each: the state reset by the
\* assignment, on_tournament_match, TJOIN <token> sent, its reply folded,
\* READY sent, its reply folded, and then the game loop is entered on that
\* state.
C7_MatchSteps ==
    /\ ( /\ TournamentIteration
         /\ log[1].msg.kind = "TournamentMatchAssignedMessage"
         /\ log[1].msg.opponent # None_ )
       => /\ \A i \in 2..Len(log) :
                 MatchStep(i) \/ (i = Len(log) /\ log[i].ev = "raise")
          /\ pc = "tjoin_send" => Len(log) = 2
          /\ pc = "tjoin_recv" => Len(log) = 3
          /\ pc = "ready_send" => Len(log) = 4
          /\ pc = "ready_recv" => Len(log) = 5
          /\ pc = "game_recv" => Len(log) = 6
          /\ pc \in {"tjoin_send", "tjoin_recv", "ready_send",
                      "ready_recv", "game_recv", "raised"}
    /\ pc \in {"tjoin_send", "tjoin_recv", "ready_send", "ready_recv"}
           => /\ TournamentIteration
              /\ log[1].msg.kind = "TournamentMatchAssignedMessage"

\* C7 witness: the game loop is about to start for the match against Bob.
C7_Witness ==
    /\ pc = "game_recv"
    /\ TournamentIteration
    /\ log[1].msg.kind = "TournamentMatchAssignedMessage"
    /\ log[1].msg.opponent = "Bob"
    /\ Len(log) = 6
    /\ state.game_id = "g1"

\* C8: run_tournament_bot returns exactly when its tournament loop has
\* folded a TournamentComplete: on_tournament_complete was then called once
\* with the winner, nothing was sent, and nothing is received or sent
\* afterwards.
C8_ReturnsOnComplete ==
    /\ [](pc = "returned" <=>
            (TournamentIteration
                /\ log[1].msg.kind = "TournamentCompleteMessage"))
    /\ [](pc = "returned" =>
            /\ Len(log) = 2
            /\ log[1].msg = msg
            /\ log[2] = Call("on_tournament_complete", <<msg.winner>>, state)
            /\ state.tournament_winner = msg.winner
            /\ exc = None_)
    /\ [][pc = "returned" => FALSE]_vars

\* C8 witness: the tournament completed after the game of match m1 ended.
C8_Witness ==
    /\ pc = "returned"
    /\ state.tournament_winner = "Bob"
    /\ state.match_token = "m1"
    /\ state.game_id = "g1"
    /\ state.phase = "ended"
    /\ state.winners = <<"Me">>

\* The step received a line that parse_server_message rejected.
ParseFailed ==
    /\ pc # "raised"
    /\ pc' = "raised"
    /\ Last(log').ev = "raise"
    /\ Last(log').op = "parse_server_message"

\* C9: a line that fails to parse leaves the GameState as it was and no Bot
\* method is called for it; a Bot method is called only by the loops, right
\* after the fold of its message, and is given the state update produced.
C9_NoCallbackOnParseFailure ==
    [][ /\ ParseFailed =>
             /\ ~Parsed[line'].ok
             /\ state' = state
             /\ msg' = msg
             /\ log' \in {Append(log, Last(log')), <<Last(log')>>}
        /\ (pc \in {"game_recv", "match_recv"} /\ pc' # "raised") =>
             \A i \in Events(log', "call") :
                 /\ i = 2
                 /\ log'[1] = Fold(log'[1].at, line', msg')
                 /\ Parsed[line'] = Ok(msg')
                 /\ state' = update(state, msg')
                 /\ log'[i].seen = state'
        /\ pc \notin {"game_recv", "match_recv"} =>
             /\ Events(log', "call") = Events(log, "call")
             /\ \A i \in Events(log, "call") : log'[i] = log[i]
      ]_vars

\* C9 witness: an unknown keyword arrived in the middle of a game.
C9_Witness ==
    /\ pc = "raised"
    /\ line = "BOGUS x"
    /\ log = <<Raised("parse_server_message", exc)>>
    /\ state.phase = "playing"
    /\ state.turn > 0

\* A server error reply: ERROR, a code E001..E018, and a text
IsErrorLine(l) ==
    LET parts == SplitWs(l, 2)
    IN  /\ Len(parts) = 3
        /\ parts[1] = "ERROR"
        /\ Len(parts[2]) = 4
        /\ Char(parts[2], 1) = "E"
        /\ AllDigits(SubSeq(parts[2], 2, 4))
        /\ DigitsVal(SubSeq(parts[2], 2, 4)) \in ErrorCode

---------------------------------------------------------------------------
(* GameState.update folded over messages in any order, as the unit tests   *)
(* of state.py do: a fresh GameState, then up to MaxFolds messages, each   *)
(* the parse of a server line.  log counts the folds, the Hand messages    *)
(* since the last GameStart, RoundStart or assignment, remembers whether a *)
(* Status message was folded, and keeps the state before the last fold.    *)

UpdateLines ==
    {"OK", "WELCOME g1 0 tok", "REJOINED g1 0",
     "JOINED Me 1/2", "JOINED Bob 2/2", "LEFT Me", "LEFT Bob",
     "GAME_START 2 300", "ROUND_START 1",
     "HAND 0:Tempura 1:Salmon Nigiri", "HAND 0:Pudding", "WAITING Bob",
     "PLAYED Me:TMP; Bob:MK3,WAS",
     "ROUND_END 1 {\"Me\":{\"maki_points\":6,\"total\":6}}",
     "ROUND_END 1 {\"Me\":{\"nigiri_points\":2,\"total\":2},\"Bob\":{}}",
     "ROUND_END 2 {\"Me\":{\"maki_points\":6,\"total\":6}}",
     "CREATED g1",
     "GAMES [{\"id\":\"g1\",\"player_count\":1,\"max_players\":2,\"status\":\"waiting\"}]",
     "TOURNAMENT_REJOINED t1 Me m1", "TOURNAMENT_JOINED t1 Bob 3/4",
     "GAME_END {\"Me\":10,\"Bob\":8} WINNER:Me",
     "GAME_END {\"Me\":7,\"Bob\":7} WINNER:Me,Bob NEXT:g2 TOURNAMENT_WINNER:Bob",
     "STATUS {\"game_id\":\"g1\",\"phase\":\"playing\",\"round\":2,\"turn\":1}",
     "TOURNAMENT_WELCOME t1 2/4 ttok",
     "TOURNAMENT_MATCH t1 m1 1 Bob", "TOURNAMENT_MATCH t1 m2 2 BYE",
     "TOURNAMENT_COMPLETE t1 Bob"}

UpdateMessages == [l \in UpdateLines |-> parse_server_message(l)]

\* state.update(m) for one message m of the given variant
Apply(kind) ==
    /\ log.folds < MaxFolds
    /\ \E l \in UpdateLines :
          /\ UpdateMessages[l].ok
          /\ UpdateMessages[l].val.kind = kind
          /\ line' = l
          /\ msg' = UpdateMessages[l].val
          /\ state' = update(state, UpdateMessages[l].val)
    /\ log' = [status |-> log.status \/ kind = "StatusMessage",
               folds |-> log.folds + 1,
               hands |-> IF kind \in {"GameStartMessage", "RoundStartMessage",
                                      "TournamentMatchAssignedMessage"}
                         THEN 0
                         ELSE IF kind = "HandMessage" THEN log.hands + 1
                         ELSE log.hands,
               before |-> state]
    /\ UNCHANGED <<pc, conn, choice, exc, closes>>

ApplyOk == Apply("OkMessage")
ApplyWelcome == Apply("WelcomeMessage")
ApplyRejoined == Apply("RejoinedMessage")
ApplyPlayerJoined == Apply("PlayerJoinedMessage")
ApplyPlayerLeft == Apply("PlayerLeftMessage")
ApplyGameStart == Apply("GameStartMessage")
ApplyRoundStart == Apply("RoundStartMessage")
ApplyHand == Apply("HandMessage")
ApplyWaiting == Apply("WaitingMessage")
ApplyTurnResult == Apply("TurnResultMessage")
ApplyRoundEnd == Apply("RoundEndMessage")
ApplyGameEnd == Apply("GameEndMessage")
ApplyStatus == Apply("StatusMessage")
ApplyTournamentWelcome == Apply("TournamentWelcomeMessage")
ApplyTournamentMatchAssigned == Apply("TournamentMatchAssignedMessage")
ApplyTournamentComplete == Apply("TournamentCompleteMessage")
ApplyCreated == Apply("CreatedMessage")
ApplyGamesList == Apply("GamesListMessage")
ApplyTournamentRejoined == Apply("TournamentRejoinedMessage")
ApplyTournamentPlayerJoined == Apply("TournamentPlayerJoinedMessage")

InitUpdate ==
    /\ pc = "update"
    /\ state = GameState(PlayerName)
    /\ conn = NewConnection
    /\ line = ""
    /\ msg = NoMsg
    /\ choice = NoChoice
    /\ exc = None_
    /\ closes = 0
    /\ log = [status |-> FALSE, folds |-> 0, hands |-> 0,
              before |-> GameState(PlayerName)]

NextUpdate ==
    \/ ApplyOk
    \/ ApplyWelcome
    \/ ApplyRejoined
    \/ ApplyPlayerJoined
    \/ ApplyPlayerLeft
    \/ ApplyGameStart
    \/ ApplyRoundStart
    \/ ApplyHand
    \/ ApplyWaiting
    \/ ApplyTurnResult
    \/ ApplyRoundEnd
    \/ ApplyGameEnd
    \/ ApplyStatus
    \/ ApplyTournamentWelcome
    \/ ApplyTournamentMatchAssigned
    \/ ApplyTournamentComplete
    \/ ApplyCreated
    \/ ApplyGamesList
    \/ ApplyTournamentRejoined
    \/ ApplyTournamentPlayerJoined

SpecUpdate == InitUpdate /\ [][NextUpdate]_vars

\* C11: the first failure (transport, timeout, parse, server ERROR reply)
\* ends the operation with that exception: the raise is the last event, no
\* step follows it, and connect is never called a second time.
C11_FirstFailureAborts ==
    /\ [](Events(log, "raise") # {} =>
            /\ pc = "raised"
            /\ Events(log, "raise") = {Len(log)}
            /\ Last(log).exc = exc)
    /\ [](pc = "raised" => Events(log, "raise") # {})
    /\ [][pc # "raised" /\ pc' # "connect"]_vars

\* C11 witness: the server refused the TJOIN of match m1.
C11_Witness ==
    /\ pc = "raised"
    /\ exc = "ProtocolError"
    /\ Len(log) = 4
    /\ log[3] = Sent("TJOIN m1")
    /\ log[4] = Raised("parse_server_message", "ProtocolError")

\* C12: on every exit, by return or by any exception (an interrupt of the
\* blocking receive included), close was called exactly once and the
\* connection holds neither socket nor file; before the exit it was not
\* called; a failed operation carries its exception and did not return.
C12_ClosedOnceOnExit ==
    /\ pc \in {"returned", "raised"} =>
           closes = 1 /\ ~conn.sock /\ ~conn.file
    /\ pc \notin {"returned", "raised"} => closes = 0 /\ exc = None_
    /\ pc = "raised" =>
           /\ exc \in {"TimeoutError", "ConnectionError", "KeyboardInterrupt",
                        "ProtocolError", "ValueError", "IndexError"}
           /\ Last(log).ev = "raise"
           /\ Last(log).exc = exc
    /\ pc = "returned" => exc = None_

\* C12 witness: the user interrupted the receive in the middle of a game.
C12_Witness ==
    /\ pc = "raised"
    /\ exc = "KeyboardInterrupt"
    /\ closes = 1
    /\ conn = NewConnection
    /\ state.phase = "playing"

\* The statements that receive a line
RecvPcs ==
    {"join_recv", "tourney_recv", "match_recv", "tjoin_recv", "ready_recv",
     "game_recv"}

\* C13: every line recv_line returns is parsed and folded in the step that
\* received it, once, before anything else is received; no other step
\* changes the state, the line or the message.
C13_FoldedInArrivalOrder ==
    [][ /\ (pc \in RecvPcs /\ pc' # "raised") =>
             /\ Parsed[line'] = Ok(msg')
             /\ state' = update(state, msg')
             /\ IF pc \in {"game_recv", "match_recv"}
                THEN /\ Events(log', "fold") = {1}
                     /\ log'[1].line = line' /\ log'[1].msg = msg'
                ELSE /\ log' = Append(log, Last(log'))
                     /\ Last(log') = Fold(Last(log').at, line', msg')
        /\ pc \notin RecvPcs =>
             /\ <<state', line', msg'>> = <<state, line, msg>>
             /\ Events(log', "fold") = Events(log, "fold")
        /\ pc' = "raised" =>
             /\ <<state', msg'>> = <<state, msg>>
             /\ Events(log', "fold") \subseteq Events(log, "fold")
      ]_vars

\* C13 witness: GAME_START was folded by the game loop of match m1.
C13_Witness ==
    /\ pc = "game_recv"
    /\ GameIteration
    /\ line = "GAME_START 2 300"
    /\ msg.kind = "GameStartMessage"
    /\ state.phase = "playing"
    /\ state.match_token = "m1"

\* C14: a TournamentMatchAssigned folded into any GameState leaves phase
\* lobby, round 0, turn 0, no hand, no last plays, no round scores, and the
\* four tournament fields equal to the message's.
C14_AssignmentResetsGame ==
    [][msg'.kind = "TournamentMatchAssignedMessage" =>
          /\ state'.phase = "lobby"
          /\ state'.round = 0
          /\ state'.turn = 0
          /\ state'.hand = <<>>
          /\ state'.last_plays = <<>>
          /\ DOMAIN state'.round_scores = {}
          /\ state'.tournament_id = msg'.tournament_id
          /\ state'.match_token = msg'.match_token
          /\ state'.tournament_round = msg'.round
          /\ state'.tournament_opponent = msg'.opponent
      ]_vars

\* C14 witness: the assignment of match m1 was folded into a finished game
\* that held a hand and a round's scores.
C14_Witness ==
    /\ line = "TOURNAMENT_MATCH t1 m1 1 Bob"
    /\ msg.kind = "TournamentMatchAssignedMessage"
    /\ log.before.phase = "ended"
    /\ log.before.hand # <<>>
    /\ DOMAIN log.before.round_scores # {}
    /\ state.phase = "lobby"
    /\ state.match_token = "m1"

\* C15: a TournamentMatchAssigned folded after a GameEnd clears the whole
\* outcome the GameEnd recorded: final scores, winners, next game id and
\* tournament winner.
C15_AssignmentClearsOutcome ==
    [][(msg.kind = "GameEndMessage"
            /\ msg'.kind = "TournamentMatchAssignedMessage") =>
          /\ DOMAIN state'.final_scores = {}
          /\ state'.winners = <<>>
          /\ state'.next_game_id = None_
          /\ state'.tournament_winner = None_
      ]_vars

\* The four tournament fields of a GameState
TournamentFields(s) ==
    <<s.tournament_id, s.match_token, s.tournament_round,
      s.tournament_opponent>>

\* C16: only TournamentWelcome and TournamentMatchAssigned change a
\* tournament field; Welcome, Rejoined, PlayerJoined, PlayerLeft, GameStart,
\* RoundStart, Hand, TurnResult, RoundEnd, GameEnd and Status leave all four
\* as they were.
C16_TournamentFieldsFrame ==
    [][ /\ TournamentFields(state') # TournamentFields(state) =>
              msg'.kind \in {"TournamentWelcomeMessage",
                             "TournamentMatchAssignedMessage"}
        /\ msg'.kind \in {"WelcomeMessage", "RejoinedMessage",
                          "PlayerJoinedMessage", "PlayerLeftMessage",
                          "GameStartMessage", "RoundStartMessage",
                          "HandMessage", "TurnResultMessage",
                          "RoundEndMessage", "GameEndMessage",
                          "StatusMessage"} =>
              TournamentFields(state') = TournamentFields(state)
      ]_vars

\* C16 witness: the Welcome of the match's game was folded after the
\* assignment of match m1 and the four fields are the assignment's.
C16_Witness ==
    /\ msg.kind = "WelcomeMessage"
    /\ state.game_id = "g1"
    /\ TournamentFields(log.before) = <<"t1", "m1", 1, "Bob">>
    /\ TournamentFields(state) = <<"t1", "m1", 1, "Bob">>

\* C17: a Hand message makes its cards the hand and adds one to turn; as
\* long as no Status was folded, turn is the number of Hand messages since
\* the last GameStart, RoundStart or TournamentMatchAssigned.
C17_TurnCountsHands ==
    /\ [][msg'.kind = "HandMessage" =>
             /\ state'.hand = msg'.cards
             /\ state'.turn = state.turn + 1
         ]_vars
    /\ [](~log.status => state.turn = log.hands)

\* C17 witness: the second hand since ROUND_START replaced a different one.
C17_Witness ==
    /\ line = "HAND 0:Pudding"
    /\ msg.kind = "HandMessage"
    /\ ~log.status
    /\ log.before.turn = 1
    /\ Len(log.before.hand) = 2
    /\ log.before.round = 1
    /\ state.turn = 2
    /\ state.hand = <<HandCard(0, "PUDDING")>>

\* C18: choose_card is called only for a Hand message, with that message's
\* cards and with the state folded for it, whose turn is one more than
\* before the message.
C18_ChooseCardSeesNewHand ==
    /\ [](\A i \in Events(log, "call") :
            log[i].fn = "choose_card" =>
                /\ i = 2
                /\ log[1].ev = "fold"
                /\ log[1].msg.kind = "HandMessage"
                /\ log[2].args = <<log[1].msg.cards>>
                /\ log[2].seen.hand = log[1].msg.cards)
    /\ [][(pc = "game_recv" /\ pc' = "game_send") =>
             /\ msg'.kind = "HandMessage"
             /\ log'[2].fn = "choose_card"
             /\ log'[2].args = <<msg'.cards>>
             /\ log'[2].seen = state'
             /\ log'[2].seen.turn = state.turn + 1
         ]_vars

\* C18 witness: choose_card runs for the second turn, whose hand differs
\* from the one held before.
C18_Witness ==
    /\ pc = "game_send"
    /\ state.phase = "playing"
    /\ state.round = 1
    /\ state.turn = 2
    /\ log[1].line = "HAND 0:Pudding"
    /\ log[2].fn = "choose_card"
    /\ log[2].args = << <<HandCard(0, "PUDDING")>> >>

\* No element twice
NoDup(xs) == \A i, j \in 1..Len(xs) : xs[i] = xs[j] => i = j

\* Names of both lists are in the same order in both, and the names only ys
\* has come after those.
OrderKept(xs, ys) ==
    \A i, j \in 1..Len(ys) :
        (i < j /\ InList(ys[j], xs)) =>
            /\ InList(ys[i], xs)
            /\ \E a, b \in 1..Len(xs) :
                   a < b /\ xs[a] = ys[i] /\ xs[b] = ys[j]

\* C19: PlayerJoined appends the name when it is absent and leaves the
\* roster alone when it is present; the roster never holds a name twice and
\* no update reorders it.
C19_RosterNoDuplicates ==
    /\ [](NoDup(state.players))
    /\ [][ /\ msg'.kind = "PlayerJoinedMessage" =>
                state'.players =
                    IF InList(msg'.player_name, state.players)
                    THEN state.players
                    ELSE Append(state.players, msg'.player_name)
           /\ OrderKept(state.players, state'.players)
         ]_vars

\* C19 witness: Me joined a second time and the roster Bob, Me was kept.
C19_Witness ==
    /\ line = "JOINED Me 1/2"
    /\ msg.kind = "PlayerJoinedMessage"
    /\ log.before.players = <<"Bob", "Me">>
    /\ state.players = <<"Bob", "Me">>

\* C20: after any PlayerLeft the name is not in the roster and player_count
\* is the length of the roster, whether or not the name was in it.
C20_CountIsRosterLength ==
    [][msg'.kind = "PlayerLeftMessage" =>
          /\ ~InList(msg'.player_name, state'.players)
          /\ state'.player_count = Len(state'.players)
      ]_vars

---------------------------------------------------------------------------
(* game.py: GameClient, used as a context manager.  Its caller invokes the *)
(* commands in any order, up to MaxCalls events; log holds the lines sent, *)
(* the messages folded and the exception that ended the block.            *)

ClientLines ==
    {"OK", "ERROR E005 Game not found", "WELCOME g1 0 tok",
     "HAND 0:Pudding", "TOURNAMENT_WELCOME t1 2/4 ttok"}

\* The player names the caller passes to join and join_tournament
ClientNames == {"Me", "Bob"}

\* GameClient._send(l) at the end of a command that leaves the state st
ClientSend(l, st, next) ==
    /\ pc = "client"
    /\ Len(log) < MaxCalls
    /\ state' = st
    /\ \E r \in SendOutcomes(conn) :
           IF r.ok
           THEN /\ log' = Append(log, Sent(l))
                /\ pc' = next
                /\ UNCHANGED <<conn, exc, closes>>
           ELSE Abort("send_line", r.exc, log)
    /\ UNCHANGED <<line, msg, choice>>

\* GameClient.__enter__: connect
ClientConnect == Connect("client")

\* GameClient.join: the name is stored, JOIN is sent, the reply awaited
ClientJoin ==
    \E name \in ClientNames :
        ClientSend(format_join(GameId, name),
                   [state EXCEPT !.player_name = name], "client_recv")

\* GameClient.join_tournament
ClientJoinTournament ==
    \E name \in ClientNames :
        ClientSend(format_tourney(TournamentId, name),
                   [state EXCEPT !.player_name = name], "client_recv")

\* GameClient.ready
ClientReady == ClientSend(format_ready, state, "client_recv")

\* GameClient.play: no reply is read
ClientPlay ==
    \E i \in 0..MaxChoice : ClientSend(format_play(i), state, "client")

\* GameClient.recv_message, called by a command or by the caller
ClientRecvMessage ==
    /\ pc \in {"client", "client_recv"}
    /\ Len(log) < MaxCalls
    /\ RecvReply(pc, "client", "client", ClientLines)

\* GameClient.__exit__ at the end of the with block
ClientExit ==
    /\ pc = "client"
    /\ pc' = "returned"
    /\ Finally
    /\ UNCHANGED <<state, line, msg, choice, exc, log>>

\* GameClient(): state = GameState()
InitClient ==
    /\ pc = "connect"
    /\ state = GameState("")
    /\ conn = NewConnection
    /\ line = ""
    /\ msg = NoMsg
    /\ choice = NoChoice
    /\ exc = None_
    /\ closes = 0
    /\ log = <<>>

NextClient ==
    \/ ClientConnect
    \/ ClientJoin
    \/ ClientJoinTournament
    \/ ClientReady
    \/ ClientPlay
    \/ ClientRecvMessage
    \/ ClientExit

SpecClient == InitClient /\ [][NextClient]_vars

\* C21: a Welcome folded into any GameState leaves game_id, player_id and
\* rejoin_token equal to the message's and phase lobby.
C21_WelcomeSetsIdentity ==
    [][msg'.kind = "WelcomeMessage" =>
          /\ state'.game_id = msg'.game_id
          /\ state'.player_id = msg'.player_id
          /\ state'.rejoin_token = msg'.rejoin_token
          /\ state'.phase = "lobby"
      ]_vars

\* C21 witness: the Welcome of game g1 was folded into a finished game.
C21_Witness ==
    /\ line = "WELCOME g1 0 tok"
    /\ msg.kind = "WelcomeMessage"
    /\ log.before.phase = "ended"
    /\ log.before.game_id = ""
    /\ state.phase = "lobby"
    /\ state.game_id = "g1"
    /\ state.rejoin_token = "tok"

\* C22: a Rejoined folded into any GameState leaves game_id and player_id
\* equal to the message's and phase lobby.
C22_RejoinedForcesLobby ==
    [][msg'.kind = "RejoinedMessage" =>
          /\ state'.game_id = msg'.game_id
          /\ state'.player_id = msg'.player_id
          /\ state'.phase = "lobby"
      ]_vars

\* C23: a GameStart folded into any GameState leaves phase playing, round 0
\* and turn 0, and player_count and move_timeout_ms equal to the message's.
C23_GameStartResets ==
    [][msg'.kind = "GameStartMessage" =>
          /\ state'.phase = "playing"
          /\ state'.round = 0
          /\ state'.turn = 0
          /\ state'.player_count = msg'.player_count
          /\ state'.move_timeout_ms = msg'.move_timeout_ms
      ]_vars

\* C23 witness: GAME_START was folded into a finished game whose round and
\* turn were not 0.
C23_Witness ==
    /\ msg.kind = "GameStartMessage"
    /\ log.before.phase = "ended"
    /\ log.before.round = 1
    /\ log.before.turn = 1
    /\ state.phase = "playing"
    /\ state.round = 0
    /\ state.move_timeout_ms = 300

\* C24: a RoundStart sets round to the message's, turn to 0 and last_plays
\* to empty, and every other field is as before.
C24_RoundStartFrame ==
    [][msg'.kind = "RoundStartMessage" =>
          state' = [state EXCEPT !.round = msg'.round, !.turn = 0,
                                 !.last_plays = <<>>]
      ]_vars

\* C24 witness: ROUND_START was folded into a state with a hand, revealed
\* plays and a round's scores; hand and scores are still there.
C24_Witness ==
    /\ msg.kind = "RoundStartMessage"
    /\ log.before.last_plays # <<>>
    /\ log.before.turn = 1
    /\ state.hand # <<>>
    /\ DOMAIN state.round_scores = {2}
    /\ state.round = 1
    /\ state.turn = 0
    /\ state.last_plays = <<>>

\* C25: a RoundEnd stores its scores under its round number, overwriting a
\* breakdown already recorded for that round, and leaves every other
\* round's entry as it was.
C25_RoundEndOverwrites ==
    [][msg'.kind = "RoundEndMessage" =>
          /\ DOMAIN state'.round_scores =
                 DOMAIN state.round_scores \cup {msg'.round}
          /\ state'.round_scores[msg'.round] = msg'.scores
          /\ \A r \in DOMAIN state.round_scores \ {msg'.round} :
                 state'.round_scores[r] = state.round_scores[r]
          /\ state' = [state EXCEPT !.round_scores = state'.round_scores]
      ]_vars

\* C25 witness: a second ROUND_END 1 replaced the breakdown of round 1
\* while round 2 was recorded too.
C25_Witness ==
    /\ msg.kind = "RoundEndMessage"
    /\ msg.round = 1
    /\ DOMAIN log.before.round_scores = {1, 2}
    /\ log.before.round_scores[1] # msg.scores
    /\ state.round_scores[1] = msg.scores
    /\ state.round_scores[2] = log.before.round_scores[2]

\* C26: a fold of anything but a TournamentMatchAssigned never removes a
\* round number from round_scores.
C26_RoundScoresGrow ==
    [][msg'.kind # "TournamentMatchAssignedMessage" =>
          DOMAIN state.round_scores \subseteq DOMAIN state'.round_scores
      ]_vars

\* C26 witness: two rounds were recorded and GAME_START of the next game
\* was folded.
C26_Witness ==
    /\ msg.kind = "GameStartMessage"
    /\ DOMAIN log.before.round_scores = {1, 2}
    /\ DOMAIN state.round_scores = {1, 2}

\* C27: a GameEnd leaves phase ended and final_scores, winners,
\* next_game_id and tournament_winner equal to the message's, an absent
\* optional field replacing a value recorded before.
C27_GameEndRecordsOutcome ==
    [][msg'.kind = "GameEndMessage" =>
          /\ state'.phase = "ended"
          /\ state'.final_scores = msg'.final_scores
          /\ state'.winners = msg'.winners
          /\ state'.next_game_id = msg'.next_game_id
          /\ state'.tournament_winner = msg'.tournament_winner
      ]_vars

\* C27 witness: a GAME_END without NEXT and TOURNAMENT_WINNER was folded
\* after one that had both.
C27_Witness ==
    /\ line = "GAME_END {\"Me\":10,\"Bob\":8} WINNER:Me"
    /\ msg.kind = "GameEndMessage"
    /\ log.before.next_game_id = "g2"
    /\ log.before.tournament_winner = "Bob"
    /\ state.next_game_id = None_
    /\ state.tournament_winner = None_
    /\ state.winners = <<"Me">>

\* C28: a TournamentComplete sets tournament_winner to the announced winner
\* and every other field, phase and tournament_id included, is as before.
C28_TournamentCompleteFrame ==
    [][msg'.kind = "TournamentCompleteMessage" =>
          state' = [state EXCEPT !.tournament_winner = msg'.winner]
      ]_vars

\* C28 witness: TOURNAMENT_COMPLETE was folded while a game of tournament
\* t1 was being played.
C28_Witness ==
    /\ msg.kind = "TournamentCompleteMessage"
    /\ log.before.tournament_winner = None_
    /\ log.before.phase = "playing"
    /\ state.phase = "playing"
    /\ state.tournament_id = "t1"
    /\ state.match_token = "m1"
    /\ state.tournament_winner = "Bob"

\* The variants GameState.update has no case for, and Waiting
NoOpKinds ==
    {"OkMessage", "WaitingMessage", "CreatedMessage", "GamesListMessage",
     "TournamentRejoinedMessage", "TournamentPlayerJoinedMessage"}

\* C29: every fold yields a GameState, and a fold of Ok, Waiting, Created,
\* GamesList, TournamentRejoined or TournamentPlayerJoined leaves every
\* field as it was.
C29_NoOpsChangeNothing ==
    /\ [](DOMAIN state = DOMAIN GameState(PlayerName))
    /\ [][msg'.kind \in NoOpKinds => state' = state]_vars

\* C29 witness: TOURNAMENT_JOINED was folded into a state with a roster and
\* a count, both kept.
C29_Witness ==
    /\ line = "TOURNAMENT_JOINED t1 Bob 3/4"
    /\ msg.kind = "TournamentPlayerJoinedMessage"
    /\ state.players = <<"Me">>
    /\ state.player_count = 1
    /\ state.max_players = 2
    /\ state = log.before

\* C30: a field of the session's GameState changes only in a step that
\* receives a line, parses it and folds the message with update; no command
\* of the client writes a field.
C30_OnlyUpdateWritesState ==
    [][state' # state =>
          /\ pc \in RecvPcs \cup {"client", "client_recv"}
          /\ line' \in ServerLines
          /\ Parsed[line'] = Ok(msg')
          /\ state' = update(state, msg')
          /\ \E i \in Events(log', "fold") :
                 log'[i].line = line' /\ log'[i].msg = msg'
      ]_vars

---------------------------------------------------------------------------
(* Single calls of the codec and of recv_line: each step applies one       *)
(* function to one input; pc names the function, log holds the argument    *)
(* and msg the outcome.                                                    *)

\* The call raised the exception e.
Raises(r, e) == ~r.ok /\ r.exc = e

\* What the transport does under one blocking readline: it hands over data
\* (the empty read is the end of the stream), it runs past the deadline
\* (socket.timeout, asyncio.TimeoutError), or it fails with an OSError.
ReadData == {"OK\n", " HAND 0:Pudding \r\n", "\n", ""}

ReadOutcomes ==
    {[kind |-> "data", data |-> d] : d \in ReadData}
    \cup {[kind |-> k, data |-> ""] : k \in {"timeout", "oserror"}}

\* recv_line whose OSError clause comes first: the deadline is reported as
\* a disconnect
recv_line_OSErrorFirst(c, r) ==
    IF ~c.file THEN Raise("ConnectionError")
    ELSE IF r.kind \in {"timeout", "oserror"} THEN Raise("ConnectionError")
    ELSE IF r.data = "" THEN Raise("ConnectionError")
    ELSE Ok(Strip(r.data))

\* SyncConnection.recv_line, given what readline does
recv_line(c, r) ==
    IF ~c.file THEN Raise("ConnectionError")
    ELSE IF r.kind = "timeout" THEN Raise("TimeoutError")
    ELSE IF r.kind = "oserror" THEN Raise("ConnectionError")
    ELSE IF r.data = "" THEN Raise("ConnectionError")
    ELSE Ok(Strip(r.data))

\* AsyncConnection: [reader, writer] (TRUE: set, FALSE: None)
NewAsyncConnection == [reader |-> FALSE, writer |-> FALSE]

\* AsyncConnection.recv_line, given what wait_for(readline) does
async_recv_line(c, r) ==
    IF ~c.reader THEN Raise("ConnectionError")
    ELSE IF r.kind = "timeout" THEN Raise("TimeoutError")
    ELSE IF r.kind = "oserror" THEN Raise("ConnectionError")
    ELSE IF r.data = "" THEN Raise("ConnectionError")
    ELSE Ok(Strip(r.data))

\* One call: fn applied to arg gave result.
Called(fn, arg, result) ==
    /\ pc' = fn
    /\ log' = arg
    /\ msg' = result
    /\ UNCHANGED <<state, conn, line, choice, exc, closes>>

CallRecvLine ==
    \E c \in {NewConnection, [sock |-> TRUE, file |-> FALSE],
              [sock |-> TRUE, file |-> TRUE]}, r \in ReadOutcomes :
        Called("recv_line", [conn |-> c, read |-> r], recv_line(c, r))

CallAsyncRecvLine ==
    \E c \in {NewAsyncConnection, [reader |-> TRUE, writer |-> TRUE]},
       r \in ReadOutcomes :
        Called("async_recv_line", [conn |-> c, read |-> r],
               async_recv_line(c, r))

\* The ERROR lines of the wire format: every code with its default text and
\* with another text.
ErrorTexts == {DefaultMessages[c] : c \in ErrorCode} \cup {"no such game: g1"}

WireErrorLines ==
    UNION {{"ERROR " \o code_str(c) \o " " \o t :
                t \in {DefaultMessages[c], "no such game: g1"}} :
           c \in ErrorCode}

\* ERROR lines without free text, with a code outside E001..E018 or with a
\* code of another shape.
OtherErrorLines ==
    {"ERROR", "ERROR E005", "ERROR E019 Unknown code", "ERROR E000 Zero",
     "ERROR E5 Short code", "ERROR EABC Letters", "ERROR 0005 No letter"}

MatchLines ==
    {"TOURNAMENT_MATCH tourney1 match_tok 2 Alice",
     "TOURNAMENT_MATCH tourney1 match_tok 1 BYE",
     "TOURNAMENT_MATCH t1 m3 3",
     "TOURNAMENT_MATCH t1 m1 1 bye",
     "TOURNAMENT_MATCH t1 BYE 1 Bob",
     "TOURNAMENT_MATCH t1 m1 1 Bob extra",
     "TOURNAMENT_MATCH t1 m1 x Bob"}

CallLines == WireErrorLines \cup OtherErrorLines \cup MatchLines

CallParseServerMessage ==
    \E l \in CallLines :
        Called("parse_server_message", l, parse_server_message(l))

CallFromCodeStr ==
    \E c \in ErrorCode :
        Called("from_code_str", c, from_code_str(code_str(c)))

CallDefaultMessage ==
    \E c \in ErrorCode : Called("default_message", c, Ok(default_message(c)))

\* Codes and names of the catalog, and strings that belong to no kind.
CodeInputs ==
    {CardCode[k] : k \in Card} \cup {"XXX", "tmp", "TMP ", "Tempura", ""}

NameInputs ==
    {CardNames[k] : k \in Card}
    \cup {"tempura", "Maki Roll", "TMP", "Salmon  Nigiri", ""}

CallFromCode == \E c \in CodeInputs : Called("from_code", c, from_code(c))

CallFromName == \E n \in NameInputs : Called("from_name", n, from_name(n))

\* HAND payloads: the tests' hands, repeated and skipped indices, an unknown
\* name, a marker without a name, a marker inside a word.
HandPayloads ==
    {"0:Tempura 1:Sashimi 2:Dumpling",
     "0:Tempura 1:Sashimi 2:Salmon Nigiri",
     "3:Maki Roll (1) 4:Maki Roll (2) 5:Maki Roll (3) 6:Egg Nigiri",
     "7:Salmon Nigiri 8:Squid Nigiri 9:Pudding",
     "10:Wasabi 11:Chopsticks",
     "3:Pudding 3:Wasabi",
     "7:Egg Nigiri 2:Chopsticks",
     "0:Squid Nigiri   1:Tempura",
     "0: Pudding",
     "",
     "0:Bogus",
     "0:Tempura 1:",
     "0:Tempura1:Sashimi"}

CallParseHand == \E h \in HandPayloads : Called("parse_hand", h, parse_hand(h))

InitCalls ==
    /\ pc = "call"
    /\ state = GameState("")
    /\ conn = NewConnection
    /\ line = ""
    /\ msg = NoMsg
    /\ choice = NoChoice
    /\ exc = None_
    /\ closes = 0
    /\ log = <<>>

NextCalls ==
    \/ CallRecvLine
    \/ CallAsyncRecvLine
    \/ CallParseServerMessage
    \/ CallFromCodeStr
    \/ CallDefaultMessage
    \/ CallFromCode
    \/ CallFromName
    \/ CallParseHand

SpecCalls == InitCalls /\ [][NextCalls]_vars

\* C31: a receive that runs past the deadline raises TimeoutError and only
\* such a receive does; the end of the stream, an I/O failure and a receive
\* on a connection that is not connected raise ConnectionError and nothing
\* else does; the same for SyncConnection and AsyncConnection.
C31_TimeoutIsNotDisconnect ==
    pc \in {"recv_line", "async_recv_line"} =>
        LET connected ==
                IF pc = "recv_line" THEN log.conn.file ELSE log.conn.reader
            eof == log.read.kind = "data" /\ log.read.data = ""
        IN  /\ Raises(msg, "TimeoutError")
                <=> (connected /\ log.read.kind = "timeout")
            /\ Raises(msg, "ConnectionError")
                <=> (~connected \/ log.read.kind = "oserror" \/ eof)
            /\ msg.ok <=> (connected /\ log.read.kind = "data" /\ ~eof)

\* C31 witness: a connected synchronous receive ran past the deadline.
C31_Witness ==
    /\ pc = "recv_line"
    /\ log.conn.file
    /\ log.read.kind = "timeout"
    /\ Raises(msg, "TimeoutError")

\* The first whitespace-separated token of a line, "" if there is none.
FirstToken(l) == IF Split(l) = <<>> THEN "" ELSE Split(l)[1]

\* C32: every line whose first token is ERROR makes parse_server_message
\* raise ProtocolError, whatever follows the keyword.
C32_ErrorLinesRaiseProtocolError ==
    pc = "parse_server_message" /\ FirstToken(log) = "ERROR"
        => Raises(msg, "ProtocolError")

\* The line "ERROR E0NN text" for the code number n.
ErrorLine(n, t) ==
    "ERROR E0" \o Char(Digits, (n \div 10) + 1) \o Char(Digits, (n % 10) + 1)
        \o " " \o t

\* C33: the line ERROR E0NN <text> raises ProtocolError with the code
\* numbered NN and the message <text>, for NN in 01..18; from_code_str undoes
\* code_str for the 18 codes; every code has a default text.
C33_ErrorCodesRoundTrip ==
    /\ pc = "parse_server_message" =>
           \A n \in 1..18, t \in ErrorTexts :
               log = ErrorLine(n, t) =>
                   /\ Raises(msg, "ProtocolError")
                   /\ msg.code = n
                   /\ msg.message = t
    /\ pc = "from_code_str" => msg = Ok(log)
    /\ pc = "default_message" => msg.ok /\ Len(msg.val) > 0

\* C33 witness: ERROR E018 with its default text was parsed into
\* INVALID_TOURNAMENT_PLAYER_COUNT and that text.
C33_Witness ==
    /\ pc = "parse_server_message"
    /\ log = "ERROR E018 Invalid tournament player count (must be 4-50)"
    /\ Raises(msg, "ProtocolError")
    /\ msg.code = 18
    /\ msg.message = "Invalid tournament player count (must be 4-50)"

\* C34: the catalog has 12 kinds with pairwise distinct 3-letter codes and
\* pairwise distinct display names; from_code and from_name return the kind
\* of a code or a name of the catalog and raise for every other string.
C34_CatalogBijection ==
    /\ Cardinality(Card) = 12
    /\ \A j, k \in Card :
           (CardCode[j] = CardCode[k] \/ CardNames[j] = CardNames[k]) => j = k
    /\ \A k \in Card : Len(CardCode[k]) = 3
    /\ pc = "from_code" =>
           /\ \A k \in Card : log = CardCode[k] => msg = Ok(k)
           /\ (\A k \in Card : log # CardCode[k]) => Raises(msg, "ValueError")
    /\ pc = "from_name" =>
           /\ \A k \in Card : log = CardNames[k] => msg = Ok(k)
           /\ (\A k \in Card : log # CardNames[k]) => Raises(msg, "ValueError")

\* C34 witness: the display name of MAKI_2 was looked up.
C34_Witness ==
    /\ pc = "from_name"
    /\ log = "Maki Roll (2)"
    /\ msg.ok
    /\ msg.val = "MAKI_2"

\* The numbers of the index markers of a payload, in order: every maximal
\* run of digits that a colon follows.
RECURSIVE HandMarkers(_, _)
HandMarkers(s, p) ==
    LET q == DigitRunEnd(s, p)
    IN  IF p > Len(s) THEN <<>>
        ELSE IF q = p THEN HandMarkers(s, p + 1)
        ELSE (IF q <= Len(s) /\ Char(s, q) = ":"
              THEN <<DigitsVal(SubSeq(s, p, q - 1))>> ELSE <<>>)
                 \o HandMarkers(s, q)

\* C35: a parsed HAND payload has one HandCard per index marker, in payload
\* order, each with the number of its marker.
C35_OneCardPerMarker ==
    pc = "parse_hand" /\ msg.ok =>
        /\ Len(msg.val) = Len(HandMarkers(log, 1))
        /\ \A i \in 1..Len(msg.val) :
               msg.val[i].index = HandMarkers(log, 1)[i]

\* The fields of a line.
Fields(l) == Split(l)

\* C36: a TOURNAMENT_MATCH line with a numeric round parses into an
\* assignment whose tournament id, match token and round are the first three
\* fields after the keyword and whose opponent is the fourth field, or
\* absent when that field is BYE or missing.
C36_ByeIsNoOpponent ==
    pc = "parse_server_message" /\ FirstToken(log) = "TOURNAMENT_MATCH"
            /\ Len(Fields(log)) >= 4 /\ IsInt(Fields(log)[4]) =>
        LET f == Fields(log)
        IN  /\ msg.ok
            /\ msg.val.kind = "TournamentMatchAssignedMessage"
            /\ msg.val.tournament_id = f[2]
            /\ msg.val.match_token = f[3]
            /\ msg.val.round = ToInt(f[4])
            /\ msg.val.opponent =
                   IF Len(f) < 5 \/ f[5] = "BYE" THEN None_ ELSE f[5]

\* C36 witness: the assignment with the opponent field BYE was parsed.
C36_Witness ==
    /\ pc = "parse_server_message"
    /\ log = "TOURNAMENT_MATCH tourney1 match_tok 1 BYE"
    /\ msg.ok
    /\ msg.val.opponent = None_
    /\ msg.val.match_token = "match_tok"

\* C39: the fold of a Status leaves game_id, phase, round and turn equal to
\* the snapshot's, whatever they were, and every other field as it was.
C39_StatusOverwrites ==
    [][msg'.kind = "StatusMessage" =>
          state' = [state EXCEPT !.game_id = msg'.status.game_id,
                                 !.phase = msg'.status.phase,
                                 !.round = msg'.status.round,
                                 !.turn = msg'.status.turn]
      ]_vars

\* C39 witness: a snapshot of round 2 in phase playing was folded into a
\* finished game, whose outcome is kept.
C39_Witness ==
    /\ pc = "update"
    /\ msg.kind = "StatusMessage"
    /\ log.before.phase = "ended"
    /\ log.before.round # 2
    /\ log.before.winners # <<>>
    /\ state.phase = "playing"
    /\ state.round = 2
    /\ state.turn = 1
    /\ state.winners = log.before.winners

---------------------------------------------------------------------------
(* sushi_go_client.py: SushiGoTournamentClient.run.  One step per blocking *)
(* receive(): the line it returns and everything run does with it up to    *)
(* the next receive().  state is self.state (None_ outside a match), conn  *)
(* the socket, msg the loop's msg, choice its pending_message, log what    *)
(* the last step did: [n, at, sent, card] (lines received so far, the      *)
(* receive it was, the commands it sent, the card play_turn chose).        *)

RunLines ==
    {"TOURNAMENT_WELCOME t1 2/4 ttok",
     "TOURNAMENT_MATCH t1 m1 1 Bob",
     "TOURNAMENT_MATCH t1 BYE 2",
     "TOURNAMENT_MATCH t1 m2 2 BYE",
     "TOURNAMENT_COMPLETE t1 Bob",
     "WELCOME g1 0 tok",
     "OK",
     "HAND 0:Pudding",
     "GAME_END {\"Me\":10,\"Bob\":8} WINNER:Me",
     "ERROR E005 Game not found"}

IsTournamentLine(l) ==
    StartsWith(l, "TOURNAMENT_MATCH") \/ StartsWith(l, "TOURNAMENT_COMPLETE")

\* GameState(game_id, player_id, rejoin_token) of sushi_go_client.py, the
\* fields run reads or writes
MatchState(gid, pid, tok) ==
    [game_id |-> gid, player_id |-> pid, rejoin_token |-> tok,
     round |-> 1, turn |-> 1, hand |-> <<>>, played_cards |-> <<>>]

\* The lookahead (?=\s\d+:|$) of parse_hand at the index e, the last one of
\* the name.
ClientLookahead(s, e) ==
    LET b == DigitRunEnd(s, e + 2)
    IN  \/ e = Len(s)
        \/ /\ e + 1 <= Len(s)
           /\ IsWs(Char(s, e + 1))
           /\ b > e + 2
           /\ b <= Len(s)
           /\ Char(s, b) = ":"

RECURSIVE ClientNameEnd(_, _)
ClientNameEnd(s, e) ==
    IF ClientLookahead(s, e) THEN e ELSE ClientNameEnd(s, e + 1)

\* [m.group(2).strip() for m in re.finditer(r"(\d+):(.*?)(?=\s\d+:|$)", s)],
\* searching from the index p
RECURSIVE ClientHand(_, _)
ClientHand(s, p) ==
    LET q == DigitRunEnd(s, p)
    IN  IF p > Len(s) THEN <<>>
        ELSE IF q > p /\ q <= Len(s) /\ Char(s, q) = ":"
        THEN LET e == ClientNameEnd(s, q)
             IN  <<Strip(SubSeq(s, q + 1, e))>> \o ClientHand(s, e + 1)
        ELSE ClientHand(s, p + 1)

\* handle_game_message, for a state that is set: the state afterwards
handle_game_message(st, m) ==
    IF StartsWith(m, "HAND")
    THEN [st EXCEPT !.hand = ClientHand(SubSeq(m, 6, Len(m)), 1)]
    ELSE IF StartsWith(m, "ROUND_START")
    THEN [st EXCEPT !.round = ToInt(Split(m)[2]), !.turn = 1,
                    !.played_cards = <<>>]
    ELSE IF StartsWith(m, "PLAYED") THEN [st EXCEPT !.turn = st.turn + 1]
    ELSE IF StartsWith(m, "ROUND_END") THEN [st EXCEPT !.played_cards = <<>>]
    ELSE st

\* disconnect, in the finally clause of run
Disconnect ==
    /\ conn' = Close(conn)
    /\ closes' = IF conn.sock THEN closes + 1 ELSE closes

\* One step of run: at the receive at, with n lines received so far, the
\* local variables become l, m, st and pend, the command cmd (None_: none) is
\* sent and run goes on to the receive next.  sendall may raise, and so does
\* a step that ends in "returned" leave through the finally clause.
RunStep(at, n, l, m, st, pend, cmd, card, next) ==
    /\ line' = l
    /\ msg' = m
    /\ state' = st
    /\ choice' = pend
    /\ exc' = exc
    /\ \/ /\ pc' = next
          /\ log' = [n |-> n, card |-> card, at |-> at,
                     sent |-> IF cmd = None_ THEN <<>> ELSE <<cmd>>]
          /\ IF next = "returned" THEN Disconnect
             ELSE UNCHANGED <<conn, closes>>
       \/ /\ cmd # None_
          /\ pc' = "returned"
          /\ log' = [n |-> n, card |-> card, at |-> "failed", sent |-> <<>>]
          /\ Disconnect

\* receive() raised: the server closed the connection
RunClosed ==
    /\ pc' = "returned"
    /\ log' = [n |-> log.n, card |-> None_, at |-> "failed", sent |-> <<>>]
    /\ Disconnect
    /\ UNCHANGED <<line, msg, state, choice, exc>>

\* receive(): a line of the server, while it has lines to deliver
RunReceive(l) == log.n < MaxLines /\ l \in RunLines

\* run, connect and join_tournament up to its first receive
RunConnect ==
    /\ pc = "connect"
    /\ \/ /\ conn' = [sock |-> TRUE, file |-> FALSE]
          /\ closes' = closes
          /\ pc' = "join_tournament"
          /\ log' = [log EXCEPT !.at = "connect",
                                !.sent = <<"TOURNEY t1 Me">>]
       \/ /\ conn' = NewConnection
          /\ closes' = closes + 1
          /\ pc' = "returned"
          /\ log' = [log EXCEPT !.at = "failed"]
    /\ UNCHANGED <<line, msg, state, choice, exc>>

\* join_tournament, receive_until TOURNAMENT_WELCOME or ERROR
RunJoinTournament ==
    /\ pc = "join_tournament"
    /\ \/ RunClosed
       \/ \E l \in RunLines :
              /\ RunReceive(l)
              /\ RunStep(pc, log.n + 1, l, msg, state, choice, None_, None_,
                         IF StartsWith(l, "TOURNAMENT_WELCOME") THEN "loop"
                         ELSE IF StartsWith(l, "ERROR") THEN "returned"
                         ELSE pc)

\* the BYE test of run that looks at the match token only
IsBye_TokenOnly(parts) == parts[3] = "BYE"

\* run: match_token == "BYE" or opponent == "BYE"
IsBye(parts) ==
    LET opponent == IF Len(parts) > 4 THEN parts[5] ELSE "unknown"
    IN  parts[3] = "BYE" \/ opponent = "BYE"

\* run, the body of the tournament loop for the message m
RunDispatch(n, l, m) ==
    LET parts == Split(m)
        Continue(cmd, next) ==
            RunStep("loop", n, l, m, state, None_, cmd, None_, next)
    IN  IF m = "" THEN Continue(None_, "loop")
        ELSE IF StartsWith(m, "TOURNAMENT_MATCH")
        THEN IF Len(parts) < 4 THEN Continue(None_, "returned")
             ELSE IF IsBye(parts) THEN Continue(None_, "loop")
             ELSE Continue("TJOIN " \o parts[3], "join_match")
        ELSE IF StartsWith(m, "TOURNAMENT_COMPLETE")
        THEN Continue(None_, "returned")
        ELSE Continue(None_, "loop")

\* run, the top of the tournament loop: the pending message or a received one
RunLoop ==
    /\ pc = "loop"
    /\ IF choice # None_ THEN RunDispatch(log.n, line, choice)
       ELSE \/ RunClosed
            \/ \E l \in RunLines :
                   RunReceive(l) /\ RunDispatch(log.n + 1, l, l)

\* join_match, receive_until WELCOME or ERROR, then signal_ready's send
RunJoinMatch ==
    /\ pc = "join_match"
    /\ \/ RunClosed
       \/ \E l \in RunLines :
              LET parts == Split(l)
                  Go(st, cmd, next) ==
                      RunStep(pc, log.n + 1, l, msg, st, choice, cmd, None_,
                              next)
              IN  /\ RunReceive(l)
                  /\ IF StartsWith(l, "WELCOME")
                     THEN IF Len(parts) < 3 \/ ~IsInt(parts[3])
                          THEN Go(state, None_, "returned")
                          ELSE Go(MatchState(parts[2], ToInt(parts[3]),
                                      IF Len(parts) > 3 THEN parts[4] ELSE ""),
                                  "READY", "signal_ready")
                     ELSE IF StartsWith(l, "ERROR")
                     THEN Go(state, None_, "loop")
                     ELSE Go(state, None_, pc)

\* signal_ready, its receive
RunSignalReady ==
    /\ pc = "signal_ready"
    /\ \/ RunClosed
       \/ \E l \in RunLines :
              /\ RunReceive(l)
              /\ RunStep(pc, log.n + 1, l, msg, state, choice, None_, None_,
                         "play_game")

\* play_game, one iteration: a tournament message is handed back to run,
\* which calls leave_game; a hand is played; GAME_END ends the game
RunPlayGame ==
    /\ pc = "play_game"
    /\ \/ RunClosed
       \/ \E l \in RunLines :
              LET st == handle_game_message(state, l)
                  Go(s2, pend, cmd, card, next) ==
                      RunStep(pc, log.n + 1, l, msg, s2, pend, cmd, card, next)
              IN  /\ RunReceive(l)
                  /\ IF IsTournamentLine(l)
                     THEN Go(state, l, "LEAVE", None_, "leave_game")
                     ELSE IF StartsWith(l, "HAND") /\ st.hand # <<>>
                     THEN \E i \in 1..Len(st.hand) :
                              Go(st, choice, "PLAY " \o IntStr(i - 1),
                                 st.hand[i], "play_turn")
                     ELSE IF StartsWith(l, "GAME_END")
                     THEN Go(st, None_, "LEAVE", None_, "leave_game")
                     ELSE Go(st, choice, None_, None_, pc)

\* play_turn, the receive of play_card
RunPlayTurn ==
    /\ pc = "play_turn"
    /\ \/ RunClosed
       \/ \E l \in RunLines :
              /\ RunReceive(l)
              /\ RunStep(pc, log.n + 1, l, msg,
                         IF StartsWith(l, "OK")
                         THEN [state EXCEPT !.played_cards = @ \o <<log.card>>]
                         ELSE state,
                         choice, None_, None_, "play_game")

\* leave_game, receive_until OK or ERROR
RunLeaveGame ==
    /\ pc = "leave_game"
    /\ \/ RunClosed
       \/ \E l \in RunLines :
              /\ RunReceive(l)
              /\ IF StartsWith(l, "OK") \/ StartsWith(l, "ERROR")
                 THEN RunStep(pc, log.n + 1, l, msg, None_, choice, None_,
                              None_, "loop")
                 ELSE RunStep(pc, log.n + 1, l, msg, state, choice, None_,
                              None_, pc)

InitRun ==
    /\ pc = "connect"
    /\ state = None_
    /\ conn = NewConnection
    /\ line = ""
    /\ msg = ""
    /\ choice = None_
    /\ exc = None_
    /\ closes = 0
    /\ log = [n |-> 0, card |-> None_, at |-> "init", sent |-> <<>>]

NextRun ==
    \/ RunConnect
    \/ RunJoinTournament
    \/ RunLoop
    \/ RunJoinMatch
    \/ RunSignalReady
    \/ RunPlayGame
    \/ RunPlayTurn
    \/ RunLeaveGame

SpecRun == InitRun /\ [][NextRun]_vars

\* C37: a TOURNAMENT_MATCH or TOURNAMENT_COMPLETE line received after the
\* tournament was joined is acted on by the tournament loop in the step that
\* receives it, or kept as the pending message for it; no receive that waits
\* for another reply drops it.
C37_TournamentLinesReachLoop ==
    [][(/\ pc \in {"loop", "join_match", "signal_ready", "play_game",
                   "play_turn", "leave_game"}
        /\ log'.n = log.n + 1
        /\ IsTournamentLine(line'))
          => \/ pc = "loop" /\ log'.at = "loop" /\ msg' = line'
             \/ choice' = line'
      ]_vars

---------------------------------------------------------------------------
(* game.py: a GameClient and an AsyncGameClient, both connected, given the *)
(* same calls while the transport does the same under both.  state, conn   *)
(* and exc hold the two clients' values ([sync, async]); log is            *)
(* [calls, sync, async]: the calls made and the lines each client sent.    *)

\* What the transport does under one send: it takes the line, it takes
\* nothing until the deadline has passed, or it fails with an OSError.
SendEvents == {"ok", "deadline", "oserror"}

\* What the transport does under the readline of a reply.
PairReads ==
    {[kind |-> "data", data |-> l \o "\n"] : l \in ClientLines}
    \cup {[kind |-> "data", data |-> ""]}
    \cup {[kind |-> k, data |-> ""] : k \in {"timeout", "oserror"}}

\* SyncConnection.send_line, given what sendall does
send_line(c, e) ==
    IF ~c.sock THEN Raise("ConnectionError")
    ELSE IF e = "deadline" THEN Raise("TimeoutError")
    ELSE IF e = "oserror" THEN Raise("ConnectionError")
    ELSE Ok(TRUE)

\* A call that does not return.
Hangs == Raise("hangs")

\* AsyncConnection.send_line, given what write and drain do: write buffers
\* the line and drain is awaited without a deadline, so that under a stalled
\* peer it returns (buffer below the high-water mark) or waits on.
async_send_line(c, e) ==
    IF ~c.writer THEN {Raise("ConnectionError")}
    ELSE IF e = "deadline" THEN {Ok(TRUE), Hangs}
    ELSE IF e = "oserror" THEN {Raise("ConnectionError")}
    ELSE {Ok(TRUE)}

\* One operation of a client cl = [state, sent, exc]: the write of
\* state.player_name (join, join_tournament), _send(cmd) with the outcome s,
\* and for an operation that returns the reply recv_message, whose recv_line
\* and parse_server_message gave the outcome m.
Perform(cl, op, s, m) ==
    LET st == IF op.player = None_ THEN cl.state
              ELSE [cl.state EXCEPT !.player_name = op.player]
        sent == IF op.cmd = None_ THEN cl.sent ELSE Append(cl.sent, op.cmd)
    IN  IF op.cmd # None_ /\ ~s.ok
        THEN [state |-> st, exc |-> s.exc, sent |-> cl.sent]
        ELSE IF ~op.reply THEN [state |-> st, exc |-> None_, sent |-> sent]
        ELSE IF ~m.ok THEN [state |-> st, exc |-> m.exc, sent |-> sent]
        ELSE [state |-> update(st, m.val), exc |-> None_, sent |-> sent]

Op(cmd, reply, player) == [cmd |-> cmd, player |-> player, reply |-> reply]

\* recv_message up to the fold: the line of recv_line parsed
Reply(l) == IF l.ok THEN Parsed[l.val] ELSE l

\* The same operation called on both clients.
PairCall(op) ==
    /\ pc = "pair"
    /\ log.calls < MaxOps
    /\ \E e \in SendEvents, r \in PairReads :
       \E sa \in async_send_line(conn.async, e) :
       \E ma \in {Reply(recv_line(conn.sync, r))},
          mb \in {Reply(async_recv_line(conn.async, r))} :
       \E a \in {Perform([state |-> state.sync, exc |-> exc.sync,
                          sent |-> log.sync],
                         op, send_line(conn.sync, e), ma)},
          b \in {Perform([state |-> state.async, exc |-> exc.async,
                          sent |-> log.async],
                         op, sa, mb)} :
           /\ state' = [async |-> b.state, sync |-> a.state]
           /\ log' = [calls |-> log.calls + 1, async |-> b.sent,
                      sync |-> a.sent]
           /\ exc' = [async |-> b.exc, sync |-> a.exc]
           /\ pc' = IF b.exc = "hangs" THEN "blocked" ELSE "pair"
    /\ UNCHANGED <<conn, line, msg, choice, closes>>

PairJoin == PairCall(Op(format_join(GameId, PlayerName), TRUE, PlayerName))

PairRejoin == PairCall(Op(format_rejoin("tok"), TRUE, None_))

PairReady == PairCall(Op(format_ready, TRUE, None_))

PairPlay == PairCall(Op(format_play(0), FALSE, None_))

PairChopsticks == PairCall(Op(format_chopsticks(0, 1), FALSE, None_))

PairStatus == PairCall(Op(format_status, TRUE, None_))

PairGames == PairCall(Op(format_games, TRUE, None_))

PairLeave == PairCall(Op(format_leave, FALSE, None_))

PairJoinTournament ==
    PairCall(Op(format_tourney(TournamentId, PlayerName), TRUE, PlayerName))

PairJoinMatch == PairCall(Op(format_tjoin("m1"), TRUE, None_))

PairRecvMessage == PairCall(Op(None_, TRUE, None_))

InitPair ==
    /\ pc = "pair"
    /\ state = [async |-> GameState(""), sync |-> GameState("")]
    /\ conn = [async |-> [reader |-> TRUE, writer |-> TRUE],
               sync |-> [sock |-> TRUE, file |-> TRUE]]
    /\ line = ""
    /\ msg = NoMsg
    /\ choice = NoChoice
    /\ exc = [async |-> None_, sync |-> None_]
    /\ closes = 0
    /\ log = [calls |-> 0, async |-> <<>>, sync |-> <<>>]

NextPair ==
    \/ PairJoin
    \/ PairRejoin
    \/ PairReady
    \/ PairPlay
    \/ PairChopsticks
    \/ PairStatus
    \/ PairGames
    \/ PairLeave
    \/ PairJoinTournament
    \/ PairJoinMatch
    \/ PairRecvMessage

SpecPair == InitPair /\ [][NextPair]_vars

\* C40: after the same calls under the same behaviour of the transport, the
\* two clients have sent the same lines in the same order, hold equal
\* GameState values, and the last call failed in both with the same
\* exception or in neither.
C40_AsyncSameAsSync ==
    pc \in {"pair", "blocked"} =>
        /\ log.sync = log.async
        /\ state.sync = state.async
        /\ exc.sync = exc.async

=============================================================================
